---- MODULE Spec2Model ----
(***************************************************************************)
(* gh-helper: the file-change analysis pipeline (lib/git.ts categorizeFile *)
(* and getFileDiff, lib/analysis.ts analyzeChanges and the aggregator,     *)
(* lib/ollama.ts callOllama and checkOllamaAvailability), the synthesis of *)
(* the commit message (lib/claude.ts and lib/ollama.ts), the commit        *)
(* command (commands/commit.ts runCommit), the pure functions of the       *)
(* analysis applied on their own, and callClaude event by event.           *)
(*                                                                         *)
(* A JavaScript string is modelled as the sequence of its characters, each *)
(* a one-character TLA+ string, so that split, includes, startsWith, trim, *)
(* toLowerCase and the regular expressions of the source are computed on   *)
(* the characters.  The comment after a literal spells it out.             *)
(***************************************************************************)
EXTENDS Integers, Sequences, FiniteSets, TLC

VARIABLES
    catPath,        \* categorizeFile: the argument filePath
    catResult,      \* categorizeFile: the values returned so far (none or one)
    files,          \* analyzeChanges: the argument files
    onProgress,     \* analyzeChanges: whether the onProgress callback is supplied
    pc,             \* analyzeChanges: where the run stands (which await it is suspended at)
    i,              \* analyzeChanges: the loop variable, as the 1-based position of files[i]
    diff,           \* analyzeFileChange: the argument diff of the call in progress
    fileAnalyses,   \* analyzeChanges: the local fileAnalyses
    result,         \* analyzeChanges: the values returned so far (none or one)
    pending,        \* the asynchronous operations started and not yet settled
    trace,          \* the observable calls made so far, in order
    analyses,       \* determineOverallScope / suggestCommitType: the argument analyses
    aggregate,      \* the aggregator's values returned so far (none or one)
    backend,        \* synthesis: the module called ("claude" for lib/claude.ts, "ollama" for lib/ollama.ts)
    synOp,          \* synthesis: the function called
    synDiff,        \* generateCommitMessage: the argument diff
    synPc,          \* synthesis: where the call stands
    synCalls,       \* synthesis: the backend invocations started (subprocesses spawned, requests sent)
    synRaw,         \* synthesis: what the backend answered (none or one)
    synResult,      \* synthesis: the settlement of the returned promise (none or one)
    cmdPc,          \* runCommit: where the command stands (which await it is suspended at)
    exitCode,       \* runCommit: the codes process.exit was called with (none or one)
    commitMessage,  \* runCommit: the local commitMessage
    editedMessage,  \* runCommit: the local editedMessage
    ollamaCheck,    \* runCommit: the local ollamaCheck (none or one)
    tags,           \* checkOllamaAvailability: what GET /api/tags answered (none or one)
    cmdTrace,       \* runCommit: the calls made and the answers read so far, in order
    fnName,         \* the function applied to an argument drawn from a bounded set
    fnArg,          \* its argument
    fnOut,          \* the values it returned so far (none or one)
    ccChild,        \* callClaude: the subprocess ("none", "running", "failed", "killed", "closed")
    ccStdout,       \* callClaude: let stdout, the output collected so far
    ccStderr,       \* callClaude: let stderr, the error output collected so far
    ccTimer,        \* callClaude: the 30 s timer ("unset", "armed", "cleared", "fired")
    ccKills,        \* callClaude: the number of child.kill() calls
    ccPromise,      \* callClaude: the settlement of the returned promise (none or one)
    ccCalls         \* callClaude: the resolve and reject calls made so far, in order

vars == <<catPath, catResult, files, onProgress, pc, i, diff, fileAnalyses, result,
          pending, trace, analyses, aggregate,
          backend, synOp, synDiff, synPc, synCalls, synRaw, synResult,
          cmdPc, exitCode, commitMessage, editedMessage, ollamaCheck, tags, cmdTrace,
          fnName, fnArg, fnOut,
          ccChild, ccStdout, ccStderr, ccTimer, ccKills, ccPromise, ccCalls>>

catVars == <<catPath, catResult>>
runVars == <<files, onProgress, pc, i, diff, fileAnalyses, result, pending, trace>>
aggVars == <<analyses, aggregate>>
synVars == <<backend, synOp, synDiff, synPc, synCalls, synRaw, synResult>>
cmdVars == <<cmdPc, exitCode, commitMessage, editedMessage, ollamaCheck, tags, cmdTrace>>

fnVars == <<fnName, fnArg, fnOut>>
ccVars == <<ccChild, ccStdout, ccStderr, ccTimer, ccKills, ccPromise, ccCalls>>

\* no function is applied on its own
FnIdle == fnName = "none" /\ fnArg = <<>> /\ fnOut = <<>>

\* callClaude is not called
CcIdle ==
    /\ ccChild = "none" /\ ccTimer = "unset" /\ ccKills = 0
    /\ ccStdout = <<>> /\ ccStderr = <<>>
    /\ ccPromise = <<>> /\ ccCalls = <<>>

\* no synthesis function is called
SynIdle ==
    /\ backend = "ollama" /\ synOp = "generateCommitMessageFromAnalysis" /\ synDiff = <<>>
    /\ synPc = "start" /\ synCalls = 0 /\ synRaw = <<>> /\ synResult = <<>>

\* runCommit is not called
CmdIdle ==
    /\ cmdPc = "start" /\ exitCode = <<>> /\ commitMessage = <<>> /\ editedMessage = <<>>
    /\ ollamaCheck = <<>> /\ tags = <<>> /\ cmdTrace = <<>>

---------------------------------------------------------------------------
(* String primitives of the JavaScript runtime.                            *)

\* String.prototype.startsWith
StartsWith(s, p) == Len(s) >= Len(p) /\ SubSeq(s, 1, Len(p)) = p

\* String.prototype.endsWith (the regular expressions anchored with $)
EndsWith(s, p) == Len(s) >= Len(p) /\ SubSeq(s, Len(s) - Len(p) + 1, Len(s)) = p

\* String.prototype.includes
Includes(s, p) == \E k \in 0..(Len(s) - Len(p)) : SubSeq(s, k + 1, k + Len(p)) = p

UpperChars == <<"A","B","C","D","E","F","G","H","I","J","K","L","M","N","O","P","Q","R","S","T","U","V","W","X","Y","Z">>  \* 'ABCDEFGHIJKLMNOPQRSTUVWXYZ'
LowerChars == <<"a","b","c","d","e","f","g","h","i","j","k","l","m","n","o","p","q","r","s","t","u","v","w","x","y","z">>  \* 'abcdefghijklmnopqrstuvwxyz'

\* the lower-case letter of each upper-case letter
LowerOf ==
    [c \in {UpperChars[u] : u \in 1..26} |->
        LowerChars[CHOOSE u \in 1..26 : UpperChars[u] = c]]

\* String.prototype.toLowerCase
ToLowerCase(s) ==
    [k \in 1..Len(s) |-> IF s[k] \in DOMAIN LowerOf THEN LowerOf[s[k]] ELSE s[k]]

\* the white space String.prototype.trim removes
IsSpace(c) == c \in {" ", "\n", "\t", "\r"}

RECURSIVE SkipSpaces(_, _, _)
\* the first position from k on, going by step (1 or -1), that holds no white space
SkipSpaces(s, k, step) ==
    IF k < 1 \/ k > Len(s) THEN k
    ELSE IF IsSpace(s[k]) THEN SkipSpaces(s, k + step, step)
    ELSE k

\* String.prototype.trim
Trim(s) == SubSeq(s, SkipSpaces(s, 1, 1), SkipSpaces(s, Len(s), -1))

RECURSIVE NumberText(_)
\* `${n}` for a count n
NumberText(n) ==
    IF n < 10 THEN <<<<"0", "1", "2", "3", "4", "5", "6", "7", "8", "9">>[n + 1]>>
    ELSE NumberText(n \div 10) \o NumberText(n % 10)

RECURSIVE IndexFrom(_, _, _)
\* String.prototype.indexOf(c, k): the first position >= k holding the character c, or 0
IndexFrom(s, c, k) ==
    IF k > Len(s) THEN 0
    ELSE IF s[k] = c THEN k
    ELSE IndexFrom(s, c, k + 1)

RECURSIVE SplitFrom(_, _, _)
\* the pieces of s from position b on
SplitFrom(s, c, b) ==
    LET k == IndexFrom(s, c, b)
    IN  IF k = 0 THEN <<SubSeq(s, b, Len(s))>>
        ELSE <<SubSeq(s, b, k - 1)>> \o SplitFrom(s, c, k + 1)

\* String.prototype.split(c): the pieces between the occurrences of the character c
Split(s, c) == SplitFrom(s, c, 1)

\* the positions at which the lines of s start (the pieces of s.split('\n'))
LineStarts(s) == {1} \cup {k + 1 : k \in {m \in 1..Len(s) : s[m] = "\n"}}

\* the line of s that starts at position b
LineAt(s, b) ==
    LET k == IndexFrom(s, "\n", b)
    IN  IF k = 0 THEN SubSeq(s, b, Len(s)) ELSE SubSeq(s, b, k - 1)

\* Array.prototype.pop() on the result of split: its last element
Pop(pieces) == pieces[Len(pieces)]

\* String.prototype.replace(p, '') with a string pattern: the first occurrence removed
ReplaceFirst(s, p) ==
    IF ~Includes(s, p) THEN s
    ELSE LET k == CHOOSE k \in 0..(Len(s) - Len(p)) :
                      /\ SubSeq(s, k + 1, k + Len(p)) = p
                      /\ \A m \in 0..(k - 1) : SubSeq(s, m + 1, m + Len(p)) # p
         IN  SubSeq(s, 1, k) \o SubSeq(s, k + Len(p) + 1, Len(s))

---------------------------------------------------------------------------
(* lib/git.ts: categorizeFile and getToolingSummary.                       *)

\* toolingPatterns: pattern.test(s) holds for one of its regular expressions
toolingPatterns(s) ==
    \/ s = <<"p","n","p","m","-","l","o","c","k",".","y","a","m","l">>  \* 'pnpm-lock.yaml' /^pnpm-lock\.yaml$/
    \/ s = <<"p","a","c","k","a","g","e","-","l","o","c","k",".","j","s","o","n">>  \* 'package-lock.json' /^package-lock\.json$/
    \/ s = <<"y","a","r","n",".","l","o","c","k">>  \* 'yarn.lock' /^yarn\.lock$/
    \/ s = <<".","g","i","t","i","g","n","o","r","e">>  \* '.gitignore' /^\.gitignore$/
    \/ s = <<"s","i","t","e","m","a","p",".","x","m","l">>  \* 'sitemap.xml' /^sitemap\.xml$/
    \/ s = <<"r","o","b","o","t","s",".","t","x","t">>  \* 'robots.txt' /^robots\.txt$/
    \/ s = <<"m","a","n","i","f","e","s","t",".","j","s","o","n">>  \* 'manifest.json' /^manifest\.json$/
    \/ StartsWith(s, <<"b","u","n","d","l","e",".">>)  \* 'bundle.' /^bundle\./
    \/ StartsWith(s, <<"d","i","s","t","/">>)  \* 'dist/' /^dist\//
    \/ StartsWith(s, <<"b","u","i","l","d","/">>)  \* 'build/' /^build\//
    \/ EndsWith(s, <<".","m","a","p">>)  \* '.map' /\.map$/
    \/ EndsWith(s, <<".","m","i","n",".","j","s">>)  \* '.min.js' /\.min\.(js|css)$/
    \/ EndsWith(s, <<".","m","i","n",".","c","s","s">>)  \* '.min.css'

\* summaryMap of getToolingSummary, in insertion order: <<key, summary>>
summaryMap ==
    << <<<<"p","n","p","m","-","l","o","c","k",".","y","a","m","l">>,    <<"U","p","d","a","t","e"," ","p","a","c","k","a","g","e"," ","d","e","p","e","n","d","e","n","c","i","e","s">>>>,  \* 'pnpm-lock.yaml' 'Update package dependencies'
       <<<<"p","a","c","k","a","g","e","-","l","o","c","k",".","j","s","o","n">>, <<"U","p","d","a","t","e"," ","p","a","c","k","a","g","e"," ","d","e","p","e","n","d","e","n","c","i","e","s">>>>,  \* 'package-lock.json' 'Update package dependencies'
       <<<<"y","a","r","n",".","l","o","c","k">>,         <<"U","p","d","a","t","e"," ","p","a","c","k","a","g","e"," ","d","e","p","e","n","d","e","n","c","i","e","s">>>>,  \* 'yarn.lock' 'Update package dependencies'
       <<<<"s","i","t","e","m","a","p",".","x","m","l">>,       <<"R","e","g","e","n","e","r","a","t","e"," ","s","i","t","e","m","a","p">>>>,  \* 'sitemap.xml' 'Regenerate sitemap'
       <<<<"r","o","b","o","t","s",".","t","x","t">>,        <<"U","p","d","a","t","e"," ","r","o","b","o","t","s",".","t","x","t">>>>,  \* 'robots.txt' 'Update robots.txt'
       <<<<"m","a","n","i","f","e","s","t",".","j","s","o","n">>,     <<"U","p","d","a","t","e"," ","w","e","b"," ","m","a","n","i","f","e","s","t">>>> >>  \* 'manifest.json' 'Update web manifest'

\* getToolingSummary with an empty default
getToolingSummaryNoDefault(fileName) ==
    LET hits == {k \in 1..Len(summaryMap) : Includes(fileName, summaryMap[k][1])}
    IN  IF hits # {} THEN summaryMap[CHOOSE k \in hits : \A m \in hits : k <= m][2]
        ELSE IF Includes(fileName, <<".","m","i","n",".">>) THEN <<"U","p","d","a","t","e"," ","m","i","n","i","f","i","e","d"," ","a","s","s","e","t","s">>  \* '.min.' 'Update minified assets'
        ELSE IF Includes(fileName, <<"b","u","n","d","l","e">>) THEN <<"U","p","d","a","t","e"," ","b","u","i","l","d"," ","b","u","n","d","l","e">>  \* 'bundle' 'Update build bundle'
        ELSE <<>>

getToolingSummary(fileName) ==
    LET hits == {k \in 1..Len(summaryMap) : Includes(fileName, summaryMap[k][1])}
    IN  IF hits # {} THEN summaryMap[CHOOSE k \in hits : \A m \in hits : k <= m][2]
        ELSE IF Includes(fileName, <<".","m","i","n",".">>) THEN <<"U","p","d","a","t","e"," ","m","i","n","i","f","i","e","d"," ","a","s","s","e","t","s">>  \* '.min.' 'Update minified assets'
        ELSE IF Includes(fileName, <<"b","u","n","d","l","e">>) THEN <<"U","p","d","a","t","e"," ","b","u","i","l","d"," ","b","u","n","d","l","e">>  \* 'bundle' 'Update build bundle'
        ELSE <<"U","p","d","a","t","e"," ","g","e","n","e","r","a","t","e","d"," ","f","i","l","e","s">>  \* 'Update generated files'

configExtensions == {<<"j","s","o","n">>, <<"y","a","m","l">>, <<"y","m","l">>, <<"t","o","m","l">>, <<"i","n","i">>, <<"c","o","n","f">>, <<"c","o","n","f","i","g">>}  \* 'json' 'yaml' 'yml' 'toml' 'ini' 'conf' 'config'
configFiles == {<<"d","o","c","k","e","r","f","i","l","e">>, <<"m","a","k","e","f","i","l","e">>, <<".","e","n","v">>, <<".","e","n","v",".","e","x","a","m","p","l","e">>}  \* 'dockerfile' 'makefile' '.env' '.env.example'
docExtensions == {<<"m","d">>, <<"t","x","t">>, <<"r","s","t">>, <<"a","d","o","c">>}  \* 'md' 'txt' 'rst' 'adoc'

\* const fileName = filePath.split('/').pop()?.toLowerCase() || ''
fileNameOf(filePath) == ToLowerCase(Pop(Split(filePath, "/")))

\* const extension = fileName.split('.').pop() || ''
extensionOf(fileName) == Pop(Split(fileName, "."))

\* the condition of each return of categorizeFile before the default, in source order
isToolingFile(fileName, filePath) == toolingPatterns(fileName) \/ toolingPatterns(filePath)

isConfigurationFile(fileName, extension) ==
    \/ extension \in configExtensions
    \/ \E f \in configFiles : Includes(fileName, f)

isDocumentationFile(extension) == extension \in docExtensions

isTestFile(fileName, filePath) ==
    \/ Includes(fileName, <<"t","e","s","t">>)  \* 'test'
    \/ Includes(fileName, <<"s","p","e","c">>)  \* 'spec'
    \/ Includes(filePath, <<"/","t","e","s","t","/">>)  \* '/test/'
    \/ Includes(filePath, <<"/","t","e","s","t","s","/">>)  \* '/tests/'
    \/ Includes(filePath, <<"/","_","_","t","e","s","t","s","_","_","/">>)  \* '/__tests__/'

\* categorizeFile with the test rule moved before the configuration rule
categorizeFileTestFirst(filePath) ==
    LET fileName  == fileNameOf(filePath)
        extension == extensionOf(fileName)
    IN  IF isToolingFile(fileName, filePath)
        THEN [type |-> <<"t","o","o","l","i","n","g">>, needsAnalysis |-> FALSE,  \* 'tooling'
              summary |-> getToolingSummary(fileName)]
        ELSE IF isTestFile(fileName, filePath)
        THEN [type |-> <<"t","e","s","t">>, needsAnalysis |-> TRUE]  \* 'test'
        ELSE IF isConfigurationFile(fileName, extension)
        THEN [type |-> <<"c","o","n","f","i","g","u","r","a","t","i","o","n">>, needsAnalysis |-> TRUE]  \* 'configuration'
        ELSE IF isDocumentationFile(extension)
        THEN [type |-> <<"d","o","c","u","m","e","n","t","a","t","i","o","n">>, needsAnalysis |-> TRUE]  \* 'documentation'
        ELSE [type |-> <<"c","o","d","e">>, needsAnalysis |-> TRUE]  \* 'code'

\* A FileCategory; summary is present only where the source sets it.
categorizeFile(filePath) ==
    LET fileName  == fileNameOf(filePath)
        extension == extensionOf(fileName)
    IN  IF isToolingFile(fileName, filePath)
        THEN [type |-> <<"t","o","o","l","i","n","g">>, needsAnalysis |-> FALSE,  \* 'tooling'
              summary |-> getToolingSummary(fileName)]
        ELSE IF isConfigurationFile(fileName, extension)
        THEN [type |-> <<"c","o","n","f","i","g","u","r","a","t","i","o","n">>, needsAnalysis |-> TRUE]  \* 'configuration'
        ELSE IF isDocumentationFile(extension)
        THEN [type |-> <<"d","o","c","u","m","e","n","t","a","t","i","o","n">>, needsAnalysis |-> TRUE]  \* 'documentation'
        ELSE IF isTestFile(fileName, filePath)
        THEN [type |-> <<"t","e","s","t">>, needsAnalysis |-> TRUE]  \* 'test'
        ELSE [type |-> <<"c","o","d","e">>, needsAnalysis |-> TRUE]  \* 'code'

\* the paths categorizeFile is applied to: every directory prefix with every file name
PathDirs ==
    { <<>>, <<"s","r","c","/">>, <<"t","e","s","t","/">>, <<"s","r","c","/","t","e","s","t","/">>, <<"l","i","b","/","t","e","s","t","s","/">>, <<"a","/","_","_","t","e","s","t","s","_","_","/">>,  \* 'src/' 'test/' 'src/test/' 'lib/tests/' 'a/__tests__/'
      <<"d","i","s","t","/">>, <<"b","u","i","l","d","/">>, <<"p","k","g","/","d","i","s","t","/">>, <<"D","o","c","s","/">> }  \* 'dist/' 'build/' 'pkg/dist/' 'Docs/'

PathNames ==
    { <<"p","n","p","m","-","l","o","c","k",".","y","a","m","l">>, <<"p","a","c","k","a","g","e","-","l","o","c","k",".","j","s","o","n">>, <<"y","a","r","n",".","l","o","c","k">>, <<"Y","a","r","n",".","l","o","c","k">>, <<".","g","i","t","i","g","n","o","r","e">>,  \* 'pnpm-lock.yaml' 'package-lock.json' 'yarn.lock' 'Yarn.lock' '.gitignore'
      <<"s","i","t","e","m","a","p",".","x","m","l">>, <<"r","o","b","o","t","s",".","t","x","t">>, <<"m","a","n","i","f","e","s","t",".","j","s","o","n">>, <<"b","u","n","d","l","e",".","j","s">>, <<"a","p","p",".","j","s",".","m","a","p">>,  \* 'sitemap.xml' 'robots.txt' 'manifest.json' 'bundle.js' 'app.js.map'
      <<"a","p","p",".","m","i","n",".","j","s">>, <<"s","t","y","l","e",".","m","i","n",".","c","s","s">>, <<"m","y","-","y","a","r","n",".","l","o","c","k">>, <<"c","o","n","f","i","g",".","t","e","s","t",".","j","s","o","n">>,  \* 'app.min.js' 'style.min.css' 'my-yarn.lock' 'config.test.json'
      <<"p","a","c","k","a","g","e",".","j","s","o","n">>, <<"c","i",".","y","a","m","l">>, <<"D","o","c","k","e","r","f","i","l","e">>, <<"M","a","k","e","f","i","l","e">>, <<".","e","n","v">>, <<"R","E","A","D","M","E",".","m","d">>,  \* 'package.json' 'ci.yaml' 'Dockerfile' 'Makefile' '.env' 'README.md'
      <<"t","e","s","t","-","p","l","a","n",".","m","d">>, <<"n","o","t","e","s",".","t","x","t">>, <<"a",".","t","e","s","t",".","t","s">>, <<"f","o","o",".","s","p","e","c",".","j","s">>, <<"i","n","s","p","e","c","t",".","t","s">>,  \* 'test-plan.md' 'notes.txt' 'a.test.ts' 'foo.spec.js' 'inspect.ts'
      <<"l","a","t","e","s","t",".","t","s">>, <<"a",".","t","s">>, <<"i","n","d","e","x",".","j","s">>, <<"j","s","o","n">>, <<"m","d">>, <<"L","I","C","E","N","S","E">>, <<"a",".">>, <<>> }  \* 'latest.ts' 'a.ts' 'index.js' 'json' 'md' 'LICENSE' 'a.'

Paths == {d \o n : d \in PathDirs, n \in PathNames}

CatInit ==
    /\ catPath \in Paths
    /\ catResult = <<>>

\* one call categorizeFile(catPath)
Categorize ==
    /\ catResult = <<>>
    /\ catResult' = <<categorizeFile(catPath)>>
    /\ UNCHANGED <<catPath, runVars, aggVars, synVars, cmdVars, fnVars, ccVars>>

\* the caller moves on to another path
NextPath ==
    /\ catResult # <<>>
    /\ catPath' \in Paths
    /\ catResult' = <<>>
    /\ UNCHANGED <<runVars, aggVars, synVars, cmdVars, fnVars, ccVars>>

---------------------------------------------------------------------------
(* lib/analysis.ts: the per-file analysis.                                 *)
(* A FileChange is [path, status] (and oldPath when renamed); a            *)
(* FileAnalysis is [file, category, summary, impact].                      *)

\* analyzeChanges, the !category.needsAnalysis branch: fileAnalyses after its push
pushSkipped(fa, file, category) ==
    Append(fa, [file |-> file, category |-> category,
                summary |-> IF "summary" \in DOMAIN category /\ category.summary # <<>>
                            THEN category.summary
                            ELSE <<"F","i","l","e"," ","u","p","d","a","t","e","d">>,  \* 'File updated'
                impact |-> <<"t","r","i","v","i","a","l">>])  \* 'trivial'

\* pushCaught with the push left out of the catch block
pushCaughtDropped(fa, file, category) == fa

\* pushCaught with the impact of the skipped files
pushCaughtTrivial(fa, file, category) ==
    Append(fa, [file |-> file, category |-> category,
                summary |-> file.status \o <<" ">> \o category.type \o <<" ","f","i","l","e">>,  \* ' ' ' file'
                impact |-> <<"t","r","i","v","i","a","l">>])  \* 'trivial'

\* analyzeChanges, the catch block: fileAnalyses after its push
pushCaught(fa, file, category) ==
    Append(fa, [file |-> file, category |-> category,
                summary |-> file.status \o <<" ">> \o category.type \o <<" ","f","i","l","e">>,  \* ' ' ' file'
                impact |-> <<"m","i","n","o","r">>])  \* 'minor'

\* isBlankDiff with the test left out
isBlankDiffNever(d) == FALSE

\* analyzeFileChange: !diff || diff.trim().length === 0
isBlankDiff(d) == d = <<>> \/ Len(Trim(d)) = 0

\* blankAnalysis with the summary of the catch block of analyzeChanges
blankAnalysisCategory(file, category) ==
    [file |-> file, category |-> category,
     summary |-> file.status \o <<" ">> \o category.type \o <<" ","f","i","l","e">>,  \* ' ' ' file'
     impact |-> <<"t","r","i","v","i","a","l">>]  \* 'trivial'

\* analyzeFileChange, the value returned for a blank diff
blankAnalysis(file, category) ==
    [file |-> file, category |-> category,
     summary |-> file.status \o <<" ">> \o file.path,  \* ' '
     impact |-> <<"t","r","i","v","i","a","l">>]  \* 'trivial'

\* createFallbackSummary without the case of a deleted file
createFallbackSummaryNoRemove(file, category) ==
    LET action == IF file.status = <<"a","d","d","e","d">> THEN <<"A","d","d">>  \* 'added' 'Add'
                  ELSE IF file.status = <<"r","e","n","a","m","e","d">> THEN <<"R","e","n","a","m","e">>  \* 'renamed' 'Rename'
                  ELSE <<"U","p","d","a","t","e">>  \* 'Update'
    IN  action \o <<" ">> \o category.type \o <<" ","f","i","l","e"," ">> \o file.path  \* ' ' ' file '

createFallbackSummary(file, category) ==
    LET action == IF file.status = <<"a","d","d","e","d">> THEN <<"A","d","d">>  \* 'added' 'Add'
                  ELSE IF file.status = <<"d","e","l","e","t","e","d">> THEN <<"R","e","m","o","v","e">>  \* 'deleted' 'Remove'
                  ELSE IF file.status = <<"r","e","n","a","m","e","d">> THEN <<"R","e","n","a","m","e">>  \* 'renamed' 'Rename'
                  ELSE <<"U","p","d","a","t","e">>  \* 'Update'
    IN  action \o <<" ">> \o category.type \o <<" ","f","i","l","e"," ">> \o file.path  \* ' ' ' file '

\* the lines of diff.split('\n') are taken by their start positions
estimateImpactFromDiff(d) ==
    LET changedLines == Cardinality({b \in LineStarts(d) :
                            \/ StartsWith(LineAt(d, b), <<"+">>)  \* '+'
                            \/ StartsWith(LineAt(d, b), <<"-">>)})  \* '-'
    IN  IF changedLines > 100 THEN <<"m","a","j","o","r">>  \* 'major'
        ELSE IF changedLines > 10 THEN <<"m","i","n","o","r">>  \* 'minor'
        ELSE <<"t","r","i","v","i","a","l">>  \* 'trivial'

createFallbackAnalysis(file, category, d) ==
    [file |-> file, category |-> category,
     summary |-> createFallbackSummary(file, category),
     impact |-> estimateImpactFromDiff(d)]

RECURSIVE parseLines(_, _, _, _)
\* the for loop of parseAnalysisResponse from line k on: <<summary, impact>> after it
parseLines(lines, k, summary, impact) ==
    IF k > Len(lines) THEN <<summary, impact>>
    ELSE IF StartsWith(lines[k], <<"S","U","M","M","A","R","Y",":">>)  \* 'SUMMARY:'
    THEN parseLines(lines, k + 1, Trim(ReplaceFirst(lines[k], <<"S","U","M","M","A","R","Y",":">>)), impact)  \* 'SUMMARY:'
    ELSE IF StartsWith(lines[k], <<"I","M","P","A","C","T",":">>)  \* 'IMPACT:'
    THEN LET impactStr == ToLowerCase(Trim(ReplaceFirst(lines[k], <<"I","M","P","A","C","T",":">>)))  \* 'IMPACT:'
         IN  parseLines(lines, k + 1, summary,
                        IF impactStr \in {<<"m","a","j","o","r">>, <<"m","i","n","o","r">>, <<"t","r","i","v","i","a","l">>}  \* 'major' 'minor' 'trivial'
                        THEN impactStr ELSE impact)
    ELSE parseLines(lines, k + 1, summary, impact)

\* parseAnalysisResponse starting from impact 'trivial' instead of 'minor'
parseAnalysisResponseTrivialDefault(file, category, response) ==
    LET parsed == parseLines(Split(response, "\n"), 1, <<>>, <<"t","r","i","v","i","a","l">>)  \* 'trivial'
    IN  [file |-> file, category |-> category,
         summary |-> IF parsed[1] = <<>> THEN createFallbackSummary(file, category)
                     ELSE parsed[1],
         impact |-> parsed[2]]

parseAnalysisResponse(file, category, response) ==
    LET parsed == parseLines(Split(response, "\n"), 1, <<>>, <<"m","i","n","o","r">>)  \* 'minor'
    IN  [file |-> file, category |-> category,
         summary |-> IF parsed[1] = <<>> THEN createFallbackSummary(file, category)
                     ELSE parsed[1],
         impact |-> parsed[2]]

---------------------------------------------------------------------------
(* lib/analysis.ts: the aggregator.                                        *)

\* analyses.filter(a => a.category.type === t).length
countType(fas, t) == Cardinality({k \in 1..Len(fas) : fas[k].category.type = t})

\* analyses.filter(a => a.impact === 'major').length
countMajor(fas) == Cardinality({k \in 1..Len(fas) : fas[k].impact = <<"m","a","j","o","r">>})  \* 'major'

\* determineOverallScope with "feature implementation" from one code analysis on
determineOverallScopeAnyCode(fas) ==
    IF countMajor(fas) > 0
    THEN IF countType(fas, <<"c","o","d","e">>) > 3 THEN <<"l","a","r","g","e"," ","f","e","a","t","u","r","e"," ","i","m","p","l","e","m","e","n","t","a","t","i","o","n">>  \* 'code' 'large feature implementation'
         ELSE IF countType(fas, <<"c","o","d","e">>) > 0 THEN <<"f","e","a","t","u","r","e"," ","i","m","p","l","e","m","e","n","t","a","t","i","o","n">>  \* 'code' 'feature implementation'
         ELSE <<"s","i","g","n","i","f","i","c","a","n","t"," ","c","h","a","n","g","e">>  \* 'significant change'
    ELSE IF countType(fas, <<"c","o","d","e">>) > 0  \* 'code'
    THEN IF countType(fas, <<"t","e","s","t">>) > 0 THEN <<"i","m","p","l","e","m","e","n","t","a","t","i","o","n"," ","w","i","t","h"," ","t","e","s","t","s">>  \* 'test' 'implementation with tests'
         ELSE <<"c","o","d","e"," ","c","h","a","n","g","e","s">>  \* 'code changes'
    ELSE IF countType(fas, <<"t","e","s","t">>) > 0 THEN <<"t","e","s","t"," ","u","p","d","a","t","e","s">>  \* 'test' 'test updates'
    ELSE IF countType(fas, <<"d","o","c","u","m","e","n","t","a","t","i","o","n">>) > 0 THEN <<"d","o","c","u","m","e","n","t","a","t","i","o","n"," ","u","p","d","a","t","e","s">>  \* 'documentation' 'documentation updates'
    ELSE IF countType(fas, <<"c","o","n","f","i","g","u","r","a","t","i","o","n">>) > 0 THEN <<"c","o","n","f","i","g","u","r","a","t","i","o","n"," ","c","h","a","n","g","e","s">>  \* 'configuration' 'configuration changes'
    ELSE IF countType(fas, <<"t","o","o","l","i","n","g">>) > 0 THEN <<"t","o","o","l","i","n","g"," ","u","p","d","a","t","e","s">>  \* 'tooling' 'tooling updates'
    ELSE <<"m","i","s","c"," ","c","h","a","n","g","e","s">>  \* 'misc changes'

\* determineOverallScope asking for documentation before tests
determineOverallScopeDocsFirst(fas) ==
    IF countMajor(fas) > 0
    THEN IF countType(fas, <<"c","o","d","e">>) > 3 THEN <<"l","a","r","g","e"," ","f","e","a","t","u","r","e"," ","i","m","p","l","e","m","e","n","t","a","t","i","o","n">>  \* 'code' 'large feature implementation'
         ELSE IF countType(fas, <<"c","o","d","e">>) > 1 THEN <<"f","e","a","t","u","r","e"," ","i","m","p","l","e","m","e","n","t","a","t","i","o","n">>  \* 'code' 'feature implementation'
         ELSE <<"s","i","g","n","i","f","i","c","a","n","t"," ","c","h","a","n","g","e">>  \* 'significant change'
    ELSE IF countType(fas, <<"c","o","d","e">>) > 0  \* 'code'
    THEN IF countType(fas, <<"t","e","s","t">>) > 0 THEN <<"i","m","p","l","e","m","e","n","t","a","t","i","o","n"," ","w","i","t","h"," ","t","e","s","t","s">>  \* 'test' 'implementation with tests'
         ELSE <<"c","o","d","e"," ","c","h","a","n","g","e","s">>  \* 'code changes'
    ELSE IF countType(fas, <<"d","o","c","u","m","e","n","t","a","t","i","o","n">>) > 0 THEN <<"d","o","c","u","m","e","n","t","a","t","i","o","n"," ","u","p","d","a","t","e","s">>  \* 'documentation' 'documentation updates'
    ELSE IF countType(fas, <<"t","e","s","t">>) > 0 THEN <<"t","e","s","t"," ","u","p","d","a","t","e","s">>  \* 'test' 'test updates'
    ELSE IF countType(fas, <<"c","o","n","f","i","g","u","r","a","t","i","o","n">>) > 0 THEN <<"c","o","n","f","i","g","u","r","a","t","i","o","n"," ","c","h","a","n","g","e","s">>  \* 'configuration' 'configuration changes'
    ELSE IF countType(fas, <<"t","o","o","l","i","n","g">>) > 0 THEN <<"t","o","o","l","i","n","g"," ","u","p","d","a","t","e","s">>  \* 'tooling' 'tooling updates'
    ELSE <<"m","i","s","c"," ","c","h","a","n","g","e","s">>  \* 'misc changes'

determineOverallScope(fas) ==
    IF countMajor(fas) > 0
    THEN IF countType(fas, <<"c","o","d","e">>) > 3 THEN <<"l","a","r","g","e"," ","f","e","a","t","u","r","e"," ","i","m","p","l","e","m","e","n","t","a","t","i","o","n">>  \* 'code' 'large feature implementation'
         ELSE IF countType(fas, <<"c","o","d","e">>) > 1 THEN <<"f","e","a","t","u","r","e"," ","i","m","p","l","e","m","e","n","t","a","t","i","o","n">>  \* 'code' 'feature implementation'
         ELSE <<"s","i","g","n","i","f","i","c","a","n","t"," ","c","h","a","n","g","e">>  \* 'significant change'
    ELSE IF countType(fas, <<"c","o","d","e">>) > 0  \* 'code'
    THEN IF countType(fas, <<"t","e","s","t">>) > 0 THEN <<"i","m","p","l","e","m","e","n","t","a","t","i","o","n"," ","w","i","t","h"," ","t","e","s","t","s">>  \* 'test' 'implementation with tests'
         ELSE <<"c","o","d","e"," ","c","h","a","n","g","e","s">>  \* 'code changes'
    ELSE IF countType(fas, <<"t","e","s","t">>) > 0 THEN <<"t","e","s","t"," ","u","p","d","a","t","e","s">>  \* 'test' 'test updates'
    ELSE IF countType(fas, <<"d","o","c","u","m","e","n","t","a","t","i","o","n">>) > 0 THEN <<"d","o","c","u","m","e","n","t","a","t","i","o","n"," ","u","p","d","a","t","e","s">>  \* 'documentation' 'documentation updates'
    ELSE IF countType(fas, <<"c","o","n","f","i","g","u","r","a","t","i","o","n">>) > 0 THEN <<"c","o","n","f","i","g","u","r","a","t","i","o","n"," ","c","h","a","n","g","e","s">>  \* 'configuration' 'configuration changes'
    ELSE IF countType(fas, <<"t","o","o","l","i","n","g">>) > 0 THEN <<"t","o","o","l","i","n","g"," ","u","p","d","a","t","e","s">>  \* 'tooling' 'tooling updates'
    ELSE <<"m","i","s","c"," ","c","h","a","n","g","e","s">>  \* 'misc changes'

\* suggestCommitType without the rule for added code files
suggestCommitTypeNoNewFiles(fas) ==
    IF countMajor(fas) > 0 THEN <<"f","e","a","t">>  \* 'feat'
    ELSE IF countType(fas, <<"c","o","d","e">>) > 0 THEN <<"f","i","x">>  \* 'code' 'fix'
    ELSE IF countType(fas, <<"t","e","s","t">>) > 0 /\ countType(fas, <<"c","o","d","e">>) = 0 THEN <<"t","e","s","t">>  \* 'test' 'code' 'test'
    ELSE IF countType(fas, <<"d","o","c","u","m","e","n","t","a","t","i","o","n">>) > 0 /\ countType(fas, <<"c","o","d","e">>) = 0 THEN <<"d","o","c","s">>  \* 'documentation' 'code' 'docs'
    ELSE <<"c","h","o","r","e">>  \* 'chore'

\* suggestCommitType asking for code analyses before major impacts
suggestCommitTypeCodeBeforeMajor(fas) ==
    IF \E k \in 1..Len(fas) : fas[k].file.status = <<"a","d","d","e","d">> /\ fas[k].category.type = <<"c","o","d","e">>  \* 'added' 'code'
    THEN <<"f","e","a","t">>  \* 'feat'
    ELSE IF countType(fas, <<"c","o","d","e">>) > 0 THEN <<"f","i","x">>  \* 'code' 'fix'
    ELSE IF countMajor(fas) > 0 THEN <<"f","e","a","t">>  \* 'feat'
    ELSE IF countType(fas, <<"t","e","s","t">>) > 0 /\ countType(fas, <<"c","o","d","e">>) = 0 THEN <<"t","e","s","t">>  \* 'test' 'code' 'test'
    ELSE IF countType(fas, <<"d","o","c","u","m","e","n","t","a","t","i","o","n">>) > 0 /\ countType(fas, <<"c","o","d","e">>) = 0 THEN <<"d","o","c","s">>  \* 'documentation' 'code' 'docs'
    ELSE <<"c","h","o","r","e">>  \* 'chore'

suggestCommitType(fas) ==
    IF \E k \in 1..Len(fas) : fas[k].file.status = <<"a","d","d","e","d">> /\ fas[k].category.type = <<"c","o","d","e">>  \* 'added' 'code'
    THEN <<"f","e","a","t">>  \* 'feat'
    ELSE IF countMajor(fas) > 0 THEN <<"f","e","a","t">>  \* 'feat'
    ELSE IF countType(fas, <<"c","o","d","e">>) > 0 THEN <<"f","i","x">>  \* 'code' 'fix'
    ELSE IF countType(fas, <<"t","e","s","t">>) > 0 /\ countType(fas, <<"c","o","d","e">>) = 0 THEN <<"t","e","s","t">>  \* 'test' 'code' 'test'
    ELSE IF countType(fas, <<"d","o","c","u","m","e","n","t","a","t","i","o","n">>) > 0 /\ countType(fas, <<"c","o","d","e">>) = 0 THEN <<"d","o","c","s">>  \* 'documentation' 'code' 'docs'
    ELSE <<"c","h","o","r","e">>  \* 'chore'

\* the AnalysisResult analyzeChanges returns
analysisResult(fa) ==
    [fileAnalyses |-> fa,
     overallScope |-> determineOverallScope(fa),
     suggestedCommitType |-> suggestCommitType(fa)]

---------------------------------------------------------------------------
(* lib/ollama.ts: callOllama, as what it does with each outcome of its two *)
(* awaits.  A value <<"ok", text>> is a return, <<"error", message>> a     *)
(* throw.                                                                  *)

\* the catch block of callOllama: the Error thrown for a caught Error with this message
callOllamaCatch(message) ==
    IF Includes(message, <<"f","e","t","c","h">>)  \* 'fetch'
    THEN <<"error", <<"C","a","n","n","o","t"," ","c","o","n","n","e","c","t"," ","t","o"," ","O","l","l","a","m","a","."," ","P","l","e","a","s","e"," ","e","n","s","u","r","e"," ","O","l","l","a","m","a"," ","i","s"," ","r","u","n","n","i","n","g"," ","o","n"," ","l","o","c","a","l","h","o","s","t",":","1","1","4","3","4">>>>  \* 'Cannot connect to Ollama. Please ensure Ollama is running on localhost:11434'
    ELSE <<"error", message>>

\* callOllama when fetch rejects with an Error carrying this message
callOllamaFetchRejected(message) == callOllamaCatch(message)

\* callOllama when fetch resolves with a response that is not ok
callOllamaNotOk(statusLine) == callOllamaCatch(<<"O","l","l","a","m","a"," ","A","P","I"," ","e","r","r","o","r",":"," ">> \o statusLine)  \* 'Ollama API error: '

\* callOllama when response.json() rejects with an Error carrying this message
callOllamaJsonRejected(message) == callOllamaCatch(message)

\* callOllama when response.json() resolves with data: a record that may hold the
\* fields error and response
callOllamaData(data) ==
    IF "error" \in DOMAIN data
    THEN callOllamaCatch(<<"O","l","l","a","m","a"," ","e","r","r","o","r",":"," ">> \o data.error)  \* 'Ollama error: '
    ELSE IF "response" \notin DOMAIN data \/ data.response = <<>>
            \/ Len(Trim(data.response)) = 0
    THEN callOllamaCatch(<<"E","m","p","t","y"," ","r","e","s","p","o","n","s","e"," ","f","r","o","m"," ","O","l","l","a","m","a">>)  \* 'Empty response from Ollama'
    ELSE <<"ok", Trim(data.response)>>

\* MODEL_CONFIG.fileAnalysis, the model callOllamaForFileAnalysis passes
fileAnalysisModel == <<"l","l","a","m","a","3",".","2",":","l","a","t","e","s","t">>  \* 'llama3.2:latest'

---------------------------------------------------------------------------
(* lib/analysis.ts: analyzeChanges as a state machine.  The run is one     *)
(* thread of control that is suspended at an await (pc) or has returned;   *)
(* an action is the code that runs from one settled await up to the next   *)
(* await or the return.                                                    *)

MaxFiles == 2

\* the FileChanges a run is given
FileUniverse ==
    { [path |-> <<"s","r","c","/","a",".","t","s">>,       status |-> <<"a","d","d","e","d">>],  \* 'src/a.ts' 'added'
      [path |-> <<"s","r","c","/","a",".","t","s">>,       status |-> <<"m","o","d","i","f","i","e","d">>],  \* 'src/a.ts' 'modified'
      [path |-> <<"p","n","p","m","-","l","o","c","k",".","y","a","m","l">>, status |-> <<"m","o","d","i","f","i","e","d">>],  \* 'pnpm-lock.yaml' 'modified'
      [path |-> <<"R","E","A","D","M","E",".","m","d">>,      status |-> <<"d","e","l","e","t","e","d">>],  \* 'README.md' 'deleted'
      [path |-> <<"l","i","b","/","b",".","t","e","s","t",".","t","s">>,  status |-> <<"r","e","n","a","m","e","d">>, oldPath |-> <<"l","i","b","/","b",".","t","s">>],  \* 'lib/b.test.ts' 'renamed' 'lib/b.ts'
      [path |-> <<"a","p","p",".","j","s","o","n">>,       status |-> <<"c","o","p","i","e","d">>] }  \* 'app.json' 'copied'

\* categorizeFile(file.path) for the files a run is given, computed once
categoryOf == [f \in FileUniverse |-> categorizeFile(f.path)]

\* n copies of the string s
Repeat(s, n) == [k \in 1..(n * Len(s)) |-> s[((k - 1) % Len(s)) + 1]]

\* what git diff --cached -- <path> prints for a file with n added lines
DiffText(n) ==
    <<"d","i","f","f"," ","-","-","g","i","t"," ","a","/","f"," ","b","/","f","\n","-","-","-"," ","a","/","f","\n","+","+","+"," ","b","/","f","\n","@","@"," ","-","0",",","0"," ","+","1"," ","@","@","\n">> \o Repeat(<<"+","x","\n">>, n)  \* 'diff --git a/f b/f\n--- a/f\n+++ b/f\n@@ -0,0 +1 @@\n' '+x\n'

\* the stdout of git diff a run may see: nothing, white space only, and diffs of
\* 3, 11 and 101 lines starting with + or - (the two file header lines included)
DiffUniverse == { <<>>, <<" ","\n">>, DiffText(1), DiffText(9), DiffText(99) }  \* ' \n'

\* the text the model may answer with
ResponseUniverse ==
    { <<" "," ","\n">>,  \* '  \n'
      <<"S","U","M","M","A","R","Y",":"," ","A","d","d"," ","p","a","r","s","e","r","\n","I","M","P","A","C","T",":"," ","m","a","j","o","r">>,  \* 'SUMMARY: Add parser\nIMPACT: major'
      <<"S","U","M","M","A","R","Y",":"," ","F","i","x"," ","t","y","p","o"," ","\n","I","M","P","A","C","T",":"," ","T","r","i","v","i","a","l","\n">>,  \* 'SUMMARY: Fix typo \nIMPACT: Trivial\n'
      <<"L","o","o","k","s"," ","f","i","n","e"," ","t","o"," ","m","e">> }  \* 'Looks fine to me'

\* the bodies response.json() may resolve with
DataUniverse ==
    { [error |-> <<"m","o","d","e","l"," ","n","o","t"," ","f","o","u","n","d">>], [done |-> TRUE] }  \* 'model not found'
    \cup { [response |-> r, done |-> TRUE] : r \in ResponseUniverse }

\* an await starts the operation op: it is in flight from now on
started(p, op) == p \cup {op}

\* awaited with the await left out: the operation is still running when the code goes on
notAwaited(p, op) == p

\* the await of op is over: the operation has settled before the code goes on
awaited(p, op) == p \ {op}

\* progressArgs reporting the loop variable i instead of i + 1
progressArgsZeroBased(k) == <<k - 1, Len(files), files[k].path>>

\* onProgress(i + 1, files.length, file.path), for the file at position k
progressArgs(k) == <<k, Len(files), files[k].path>>

Event(ev, k, args) == [ev |-> ev, file |-> k, args |-> args]

RECURSIVE runLoop(_, _, _, _)
\* the for loop of analyzeChanges entered with the loop variable at position k, local
\* fileAnalyses fa, pending operations p and trace tr: the state it reaches at its
\* next await, or at the return
runLoop(k, fa, p, tr) ==
    IF k > Len(files)
    THEN [pc |-> "returned", i |-> k, fileAnalyses |-> fa, pending |-> p, trace |-> tr,
          result |-> <<analysisResult(fa)>>]
    ELSE LET file     == files[k]
             tr1      == IF onProgress
                         THEN Append(tr, Event("onProgress", k, progressArgs(k)))
                         ELSE tr
             category == categoryOf[file]
         IN  IF ~category.needsAnalysis
             THEN runLoop(k + 1, pushSkipped(fa, file, category), p, tr1)
             ELSE [pc |-> "getFileDiff", i |-> k, fileAnalyses |-> fa,
                   pending |-> started(p, <<"getFileDiff", k>>),
                   trace |-> Append(tr1, Event("getFileDiff", k, <<file.path>>)),
                   result |-> <<>>]

\* the run moves to the state st computed by runLoop
Resume(st) ==
    /\ pc' = st.pc
    /\ i' = st.i
    /\ fileAnalyses' = st.fileAnalyses
    /\ pending' = st.pending
    /\ trace' = st.trace
    /\ result' = st.result

RunInit ==
    /\ files \in UNION {[1..n -> FileUniverse] : n \in 0..MaxFiles}
    /\ onProgress \in BOOLEAN
    /\ pc = "start"
    /\ i = 1
    /\ diff = <<>>
    /\ fileAnalyses = <<>>
    /\ result = <<>>
    /\ pending = {}
    /\ trace = <<>>

\* analyzeChanges(files, onProgress) is called
Call ==
    /\ pc = "start"
    /\ Resume(runLoop(1, <<>>, {}, <<>>))
    /\ UNCHANGED <<files, onProgress, diff, catVars, aggVars, synVars, cmdVars, fnVars, ccVars>>

\* analyzeFileChange has an outcome for the file at position i (<<"ok", response>> or
\* <<"error", message>> of callOllama, the operation op having settled): its analysis
\* is pushed and the loop goes on
FinishCall(outcome, op) ==
    LET file     == files[i]
        category == categoryOf[file]
        analysis == IF outcome[1] = "ok"
                    THEN parseAnalysisResponse(file, category, outcome[2])
                    ELSE createFallbackAnalysis(file, category, diff)
    IN  /\ Resume(runLoop(i + 1, Append(fileAnalyses, analysis),
                          awaited(pending, <<op, i>>),
                          Append(trace, Event("callOllama:" \o outcome[1], i, <<>>))))
        /\ UNCHANGED <<files, onProgress, diff, catVars, aggVars, synVars, cmdVars, fnVars, ccVars>>

\* git prints stdout and exits with 0: getFileDiff returns stdout.trim(), and
\* analyzeFileChange returns at once for a blank diff or calls the model
GetFileDiffResolves ==
    /\ pc = "getFileDiff"
    /\ \E stdout \in DiffUniverse :
        LET d        == Trim(stdout)
            file     == files[i]
            category == categoryOf[file]
            p1       == awaited(pending, <<"getFileDiff", i>>)
            tr1      == Append(trace, Event("getFileDiff:ok", i, <<>>))
        IN  /\ diff' = d
            /\ IF isBlankDiff(d)
               THEN Resume(runLoop(i + 1, Append(fileAnalyses, blankAnalysis(file, category)),
                                   p1, tr1))
               ELSE /\ pc' = "fetch"
                    /\ pending' = started(p1, <<"fetch", i>>)
                    /\ trace' = Append(tr1, Event("callOllama", i, <<fileAnalysisModel>>))
                    /\ UNCHANGED <<i, fileAnalyses, result>>
    /\ UNCHANGED <<files, onProgress, catVars, aggVars, synVars, cmdVars, fnVars, ccVars>>

\* git fails: getFileDiff throws, and the catch block of analyzeChanges pushes its entry
GetFileDiffRejects ==
    /\ pc = "getFileDiff"
    /\ LET file     == files[i]
           category == categoryOf[file]
       IN  Resume(runLoop(i + 1, pushCaught(fileAnalyses, file, category),
                          awaited(pending, <<"getFileDiff", i>>),
                          Append(trace, Event("getFileDiff:error", i, <<>>))))
    /\ UNCHANGED <<files, onProgress, diff, catVars, aggVars, synVars, cmdVars, fnVars, ccVars>>

\* fetch rejects (Ollama cannot be reached)
FetchRejects ==
    /\ pc = "fetch"
    /\ FinishCall(callOllamaFetchRejected(<<"f","e","t","c","h"," ","f","a","i","l","e","d">>), "fetch")  \* 'fetch failed'

\* fetch resolves with a response whose status is not 2xx
FetchNotOk ==
    /\ pc = "fetch"
    /\ \E statusLine \in {<<"5","0","0"," ","I","n","t","e","r","n","a","l"," ","S","e","r","v","e","r"," ","E","r","r","o","r">>, <<"4","0","4"," ","N","o","t"," ","F","o","u","n","d">>} :  \* '500 Internal Server Error' '404 Not Found'
        FinishCall(callOllamaNotOk(statusLine), "fetch")

\* fetch resolves with a 2xx response: callOllama awaits response.json()
FetchOk ==
    /\ pc = "fetch"
    /\ pc' = "json"
    /\ pending' = started(awaited(pending, <<"fetch", i>>), <<"json", i>>)
    /\ UNCHANGED <<files, onProgress, i, diff, fileAnalyses, result, trace, catVars, aggVars, synVars, cmdVars, fnVars, ccVars>>

\* response.json() rejects (the body is not JSON)
JsonRejects ==
    /\ pc = "json"
    /\ FinishCall(callOllamaJsonRejected(<<"U","n","e","x","p","e","c","t","e","d"," ","t","o","k","e","n"," ","<"," ","i","n"," ","J","S","O","N"," ","a","t"," ","p","o","s","i","t","i","o","n"," ","0">>), "json")  \* 'Unexpected token < in JSON at position 0'

\* response.json() resolves with a body
JsonResolves ==
    /\ pc = "json"
    /\ \E data \in DataUniverse : FinishCall(callOllamaData(data), "json")

Init ==
    /\ RunInit
    /\ catPath = <<>> /\ catResult = <<>>
    /\ analyses = <<>> /\ aggregate = <<>>
    /\ SynIdle
    /\ CmdIdle
    /\ FnIdle
    /\ CcIdle

Next ==
    \/ Call
    \/ GetFileDiffResolves
    \/ GetFileDiffRejects
    \/ FetchRejects
    \/ FetchNotOk
    \/ FetchOk
    \/ JsonRejects
    \/ JsonResolves

Spec == Init /\ [][Next]_vars

\* The event loop runs the continuation of every settled await, and the local git
\* process ends; nothing in callOllama bounds the time the server takes, so no
\* fairness is stated for the settling of fetch and of response.json().
FairSpec == Spec /\ WF_vars(Call) /\ WF_vars(GetFileDiffResolves \/ GetFileDiffRejects)

---------------------------------------------------------------------------
(* categorizeFile and the aggregator applied to inputs drawn from bounded  *)
(* sets.                                                                   *)

\* the analyzeChanges run at rest, for the specifications that do not run it
RunIdle ==
    /\ files = <<>> /\ onProgress = FALSE /\ pc = "start" /\ i = 1 /\ diff = <<>>
    /\ fileAnalyses = <<>> /\ result = <<>> /\ pending = {} /\ trace = <<>>

InitCategorize ==
    /\ CatInit
    /\ RunIdle
    /\ analyses = <<>> /\ aggregate = <<>>
    /\ SynIdle
    /\ CmdIdle
    /\ FnIdle
    /\ CcIdle

NextCategorize ==
    \/ Categorize
    \/ NextPath

SpecCategorize == InitCategorize /\ [][NextCategorize]_vars

MaxAnalyses == 4

\* a FileAnalysis of the file at path, as analyzeChanges builds it
Analysis(path, status, impact) ==
    [file |-> [path |-> path, status |-> status], category |-> categorizeFile(path),
     summary |-> <<"U","p","d","a","t","e">>, impact |-> impact]  \* 'Update'

AnalysisUniverse ==
    { Analysis(<<"s","r","c","/","a",".","t","s">>, <<"a","d","d","e","d">>, <<"m","i","n","o","r">>),  \* 'src/a.ts' 'added' 'minor'
      Analysis(<<"s","r","c","/","b",".","t","s">>, <<"m","o","d","i","f","i","e","d">>, <<"m","i","n","o","r">>),  \* 'src/b.ts' 'modified' 'minor'
      Analysis(<<"s","r","c","/","c",".","t","s">>, <<"m","o","d","i","f","i","e","d">>, <<"m","a","j","o","r">>),  \* 'src/c.ts' 'modified' 'major'
      Analysis(<<"s","r","c","/","a",".","t","e","s","t",".","t","s">>, <<"a","d","d","e","d">>, <<"m","i","n","o","r">>),  \* 'src/a.test.ts' 'added' 'minor'
      Analysis(<<"R","E","A","D","M","E",".","m","d">>, <<"m","o","d","i","f","i","e","d">>, <<"m","a","j","o","r">>),  \* 'README.md' 'modified' 'major'
      Analysis(<<"d","o","c","s","/","g","u","i","d","e",".","m","d">>, <<"m","o","d","i","f","i","e","d">>, <<"t","r","i","v","i","a","l">>),  \* 'docs/guide.md' 'modified' 'trivial'
      Analysis(<<"a","p","p",".","j","s","o","n">>, <<"m","o","d","i","f","i","e","d">>, <<"m","i","n","o","r">>),  \* 'app.json' 'modified' 'minor'
      Analysis(<<"y","a","r","n",".","l","o","c","k">>, <<"m","o","d","i","f","i","e","d">>, <<"t","r","i","v","i","a","l">>) }  \* 'yarn.lock' 'modified' 'trivial'

AggInit ==
    /\ analyses \in UNION {[1..n -> AnalysisUniverse] : n \in 0..MaxAnalyses}
    /\ aggregate = <<>>

\* determineOverallScope(analyses) and suggestCommitType(analyses) are computed
Aggregate ==
    /\ aggregate = <<>>
    /\ aggregate' = <<[overallScope |-> determineOverallScope(analyses),
                       suggestedCommitType |-> suggestCommitType(analyses)]>>
    /\ UNCHANGED <<analyses, runVars, catVars, synVars, cmdVars, fnVars, ccVars>>

InitAggregate ==
    /\ AggInit
    /\ RunIdle
    /\ catPath = <<>> /\ catResult = <<>>
    /\ SynIdle
    /\ CmdIdle
    /\ FnIdle
    /\ CcIdle

NextAggregate == Aggregate

SpecAggregate == InitAggregate /\ [][NextAggregate]_vars


----------------------------------------------------------------------------
(* lib/claude.ts: sanitizeMessage.  Each replace is computed as the regular *)
(* expression engine computes it: the string is scanned from the left, a    *)
(* match is removed and the scan resumes at the end of the match.           *)

\* the character U+0060, which a string of this language cannot hold
Backquote == "U+0060"

\* ^ under the m flag: position p is the start of the string or follows a line feed
AtLineStart(s, p) == p = 1 \/ s[p - 1] = "\n"

\* $ under the m flag: position p is the end of the string or holds a line feed
AtLineEnd(s, p) == p = Len(s) + 1 \/ s[p] = "\n"

\* whether the three characters from position p on are three backquotes
FenceAt(s, p) == p + 2 <= Len(s) /\ s[p] = Backquote /\ s[p + 1] = Backquote /\ s[p + 2] = Backquote

RECURSIVE SkipLower(_, _)
\* [a-z]*: the first position from p on that holds no lower-case letter
SkipLower(s, p) ==
    IF p <= Len(s) /\ s[p] \in {LowerChars[u] : u \in 1..26} THEN SkipLower(s, p + 1)
    ELSE p

\* the end of the match of ^```[a-z]*\n? at position p, or 0
OpeningFenceEnd(s, p) ==
    IF AtLineStart(s, p) /\ FenceAt(s, p)
    THEN LET q == SkipLower(s, p + 3)
         IN  IF q <= Len(s) /\ s[q] = "\n" THEN q + 1 ELSE q
    ELSE 0

\* the end of the match of ```$ at position p, or 0
ClosingFenceEnd(s, p) ==
    IF FenceAt(s, p) /\ AtLineEnd(s, p + 3) THEN p + 3 ELSE 0

RECURSIVE LastLineEnd(_, _, _)
\* the last position from hi down to lo that is a line end, or 0
LastLineEnd(s, lo, hi) ==
    IF hi < lo THEN 0
    ELSE IF AtLineEnd(s, hi) THEN hi
    ELSE LastLineEnd(s, lo, hi - 1)

\* the end of the match of ^\s*```\s*$ at position p, or 0: \s* is greedy and gives
\* characters back until $ holds
FenceLineEnd(s, p) ==
    IF AtLineStart(s, p)
    THEN LET q == SkipSpaces(s, p, 1)
         IN  IF FenceAt(s, q)
             THEN LastLineEnd(s, q + 3, SkipSpaces(s, q + 3, 1))
             ELSE 0
    ELSE 0

\* the end of the match at position p of the regular expression re of sanitizeMessage
\* (its first, second or third), or 0
MatchEnd(re, s, p) ==
    IF re = 1 THEN OpeningFenceEnd(s, p)
    ELSE IF re = 2 THEN ClosingFenceEnd(s, p)
    ELSE FenceLineEnd(s, p)

RECURSIVE RemoveMatches(_, _, _)
\* String.prototype.replace(re, '') with the g flag, from position p on
RemoveMatches(re, s, p) ==
    IF p > Len(s) THEN <<>>
    ELSE LET e == MatchEnd(re, s, p)
         IN  IF e > p THEN RemoveMatches(re, s, e)
             ELSE <<s[p]>> \o RemoveMatches(re, s, p + 1)

sanitizeMessage(message) ==
    Trim(RemoveMatches(3, RemoveMatches(2, RemoveMatches(1, message, 1), 1), 1))


----------------------------------------------------------------------------
(* lib/claude.ts and lib/ollama.ts: generateCommitMessage(diff) and         *)
(* generateCommitMessageFromAnalysis(analysisResult).  A settlement         *)
(* <<"ok", text>> is a returned message, <<"error", message>> a thrown      *)
(* Error.                                                                   *)

\* String(code) for the exit codes of the subprocess
CodeText(code) == <<<<"0">>, <<"1">>>>[code + 1]  \* '0' '1'

\* the close handler of callClaude
callClaudeClose(code, stdout, stderr) ==
    IF code # 0
    THEN <<"error", <<"C","l","a","u","d","e"," ","C","L","I"," ","e","x","i","t","e","d"," ","w","i","t","h"," ","c","o","d","e"," ">> \o CodeText(code) \o <<"."," ","s","t","d","e","r","r",":"," ">> \o stderr>>  \* 'Claude CLI exited with code ' '. stderr: '
    ELSE IF Len(Trim(stdout)) = 0
    THEN <<"error", <<"N","o"," ","c","o","m","m","i","t"," ","m","e","s","s","a","g","e"," ","g","e","n","e","r","a","t","e","d">>>>  \* 'No commit message generated'
    ELSE <<"ok", sanitizeMessage(Trim(stdout))>>

\* the timer of callClaude fires
callClaudeTimeout == <<"error", <<"C","l","a","u","d","e"," ","C","L","I"," ","t","i","m","e","d"," ","o","u","t"," ","a","f","t","e","r"," ","3","0"," ","s","e","c","o","n","d","s">>>>  \* 'Claude CLI timed out after 30 seconds'

\* the catch block of generateCommitMessage and generateCommitMessageFromAnalysis of
\* lib/claude.ts
claudeCatch(settled) ==
    IF settled[1] = "ok" THEN settled
    ELSE IF Includes(settled[2], <<"E","N","O","E","N","T">>)  \* 'ENOENT'
    THEN <<"error", <<"C","l","a","u","d","e"," ","C","o","d","e"," ","C","L","I"," ","n","o","t"," ","f","o","u","n","d","."," ","P","l","e","a","s","e"," ","e","n","s","u","r","e"," ","C","l","a","u","d","e"," ","C","o","d","e"," ","i","s"," ","i","n","s","t","a","l","l","e","d"," ","a","n","d"," ","a","v","a","i","l","a","b","l","e"," ","i","n"," ","P","A","T","H",".">>>>  \* 'Claude Code CLI not found. Please ensure Claude Code is installed and available in PATH.'
    ELSE IF Includes(settled[2], <<"a","u","t","h","e","n","t","i","c","a","t","i","o","n">>) \/ Includes(settled[2], <<"l","o","g","i","n">>)  \* 'authentication' 'login'
    THEN <<"error", <<"C","l","a","u","d","e"," ","a","u","t","h","e","n","t","i","c","a","t","i","o","n"," ","r","e","q","u","i","r","e","d","."," ","P","l","e","a","s","e"," ","r","u","n",":"," ","c","l","a","u","d","e"," ","l","o","g","i","n">>>>  \* 'Claude authentication required. Please run: claude login'
    ELSE <<"error", <<"F","a","i","l","e","d"," ","t","o"," ","g","e","n","e","r","a","t","e"," ","c","o","m","m","i","t"," ","m","e","s","s","a","g","e",":"," ">> \o settled[2]>>  \* 'Failed to generate commit message: '

\* the catch block of generateCommitMessageFromAnalysis of lib/ollama.ts; the
\* generateCommitMessage of lib/ollama.ts has none
ollamaCatch(op, settled) ==
    IF settled[1] = "ok" \/ op = "generateCommitMessage" THEN settled
    ELSE IF Includes(settled[2], <<"c","o","n","n","e","c","t">>)  \* 'connect'
    THEN <<"error", <<"C","a","n","n","o","t"," ","c","o","n","n","e","c","t"," ","t","o"," ","O","l","l","a","m","a","."," ","P","l","e","a","s","e"," ","e","n","s","u","r","e"," ","O","l","l","a","m","a"," ","i","s"," ","r","u","n","n","i","n","g"," ","o","n"," ","l","o","c","a","l","h","o","s","t",":","1","1","4","3","4">>>>  \* 'Cannot connect to Ollama. Please ensure Ollama is running on localhost:11434'
    ELSE settled

\* the guard of generateCommitMessage without the trim
noDiffContentEmptyOnly(d) == Len(d) = 0

\* the guard of generateCommitMessage: !diff || diff.trim().length === 0
noDiffContent(d) == Len(d) = 0 \/ Len(Trim(d)) = 0

\* what the backend may answer: the stdout of the subprocess, the response field of
\* the body
RawUniverse ==
    { <<>>,
      <<" "," ","\n">>,  \* '  \n'
      <<"f","e","a","t",":"," ","a","d","d"," ","p","a","r","s","e","r","\n">>,  \* 'feat: add parser\n'
      <<Backquote,Backquote,Backquote,"\n","f","e","a","t",":"," ","a","d","d"," ","f","e","a","t","u","r","e","\n",Backquote,Backquote,Backquote>>,  \* '```\nfeat: add feature\n```'
      <<"f","e","a","t",":"," ","a","d","d"," ",Backquote,"c","o","n","s","o","l","e",".","l","o","g",Backquote," ","d","e","b","u","g","g","i","n","g">>,  \* 'feat: add `console.log` debugging'
      <<Backquote,Backquote,Backquote,"t","e","x","t","\n","f","i","x",":"," ","h","a","n","d","l","e"," ","n","i","l","\n","\n","-"," ","g","u","a","r","d"," ","i","n","p","u","t","\n",Backquote,Backquote,Backquote,"\n">>,  \* '```text\nfix: handle nil\n\n- guard input\n```\n'
      <<"H","e","r","e"," ","i","t"," ","i","s",":","\n",Backquote,Backquote,Backquote,"\n","c","h","o","r","e",":"," ","b","u","m","p"," ","d","e","p","s","\n",Backquote,Backquote,Backquote>>,  \* 'Here it is:\n```\nchore: bump deps\n```'
      <<"f","i","x",":"," ","w","r","a","p"," ","o","u","t","p","u","t"," ","i","n"," ",Backquote,Backquote,Backquote>>,  \* 'fix: wrap output in ```'
      <<Backquote,Backquote,Backquote,"j","s",Backquote,Backquote,Backquote," ","r","e","n","d","e","r","s"," ","c","o","d","e">>,  \* '```js``` renders code'
      <<"d","o","c","s",":"," ","f","e","n","c","e","s","\n","\n"," ",Backquote,Backquote,Backquote," ","\n","\n","m","o","r","e">> }  \* 'docs: fences\n\n ``` \n\nmore'

\* the bodies response.json() may resolve with during synthesis
SynDataUniverse ==
    { [error |-> <<"m","o","d","e","l"," ","'","l","l","a","m","a","3",":","l","a","t","e","s","t","'"," ","n","o","t"," ","f","o","u","n","d">>], [done |-> TRUE] }  \* 'model 'llama3:latest' not found'
    \cup { [response |-> r, done |-> TRUE] : r \in RawUniverse }

\* the diffs generateCommitMessage may be given
SynDiffUniverse == {<<>>, <<" ","\n","\t">>, <<"+","a","\n","-","b">>}  \* ' \n\t' '+a\n-b'

SynInit ==
    /\ backend \in {"claude", "ollama"}
    /\ synOp \in {"generateCommitMessage", "generateCommitMessageFromAnalysis"}
    /\ synDiff \in IF synOp = "generateCommitMessage" THEN SynDiffUniverse ELSE {<<>>}
    /\ synPc = "start"
    /\ synCalls = 0
    /\ synRaw = <<>>
    /\ synResult = <<>>

\* the promise the synthesis function returned settles
SynSettle(raw, settled) ==
    /\ synPc' = "returned"
    /\ synRaw' = <<raw>>
    /\ synResult' = <<settled>>
    /\ UNCHANGED <<backend, synOp, synDiff, synCalls>>

\* the synthesis function is called: generateCommitMessage throws for a diff without
\* content; otherwise the prompt is built and callClaude spawns the subprocess, or
\* callOllama sends the request
SynCall ==
    /\ synPc = "start"
    /\ IF synOp = "generateCommitMessage" /\ noDiffContent(synDiff)
       THEN /\ synPc' = "returned"
            /\ synResult' = <<(<<"error", <<"N","o"," ","d","i","f","f"," ","c","o","n","t","e","n","t"," ","p","r","o","v","i","d","e","d">>>>)>>  \* 'No diff content provided'
            /\ UNCHANGED <<backend, synOp, synDiff, synCalls, synRaw>>
       ELSE /\ synPc' = IF backend = "claude" THEN "child" ELSE "fetch"
            /\ synCalls' = synCalls + 1
            /\ UNCHANGED <<backend, synOp, synDiff, synRaw, synResult>>
    /\ UNCHANGED <<catVars, runVars, aggVars, cmdVars, fnVars, ccVars>>

\* the subprocess closes with an exit code
ClaudeCloses ==
    /\ synPc = "child"
    /\ \E code \in {0, 1}, stdout \in RawUniverse,
          stderr \in {<<>>, <<"w","a","r","n","i","n","g",":"," ","s","l","o","w","\n">>, <<"P","l","e","a","s","e"," ","l","o","g","i","n"," ","f","i","r","s","t">>,  \* 'warning: slow\n' 'Please login first'
                      <<"E","r","r","o","r",":"," ","E","N","O","E","N","T",":"," ","n","o"," ","s","u","c","h"," ","f","i","l","e"," ","o","r"," ","d","i","r","e","c","t","o","r","y",","," ","o","p","e","n"," ","s","e","t","t","i","n","g","s",".","j","s","o","n">>} :  \* 'Error: ENOENT: no such file or directory, open settings.json'
        SynSettle([kind |-> "close", code |-> code, stdout |-> stdout, stderr |-> stderr],
                  claudeCatch(callClaudeClose(code, stdout, stderr)))
    /\ UNCHANGED <<catVars, runVars, aggVars, cmdVars, fnVars, ccVars>>

\* the subprocess cannot be spawned: the error event
ClaudeErrors ==
    /\ synPc = "child"
    /\ \E message \in {<<"s","p","a","w","n"," ","c","l","a","u","d","e"," ","E","N","O","E","N","T">>, <<"s","p","a","w","n"," ","c","l","a","u","d","e"," ","E","A","C","C","E","S">>} :  \* 'spawn claude ENOENT' 'spawn claude EACCES'
        SynSettle([kind |-> "error", message |-> message], claudeCatch(<<"error", message>>))
    /\ UNCHANGED <<catVars, runVars, aggVars, cmdVars, fnVars, ccVars>>

\* the 30 s timer fires before the subprocess closes
ClaudeTimesOut ==
    /\ synPc = "child"
    /\ SynSettle([kind |-> "timeout"], claudeCatch(callClaudeTimeout))
    /\ UNCHANGED <<catVars, runVars, aggVars, cmdVars, fnVars, ccVars>>

\* fetch rejects (Ollama cannot be reached)
SynFetchRejects ==
    /\ synPc = "fetch"
    /\ SynSettle([kind |-> "fetchRejected"],
                 ollamaCatch(synOp, callOllamaFetchRejected(<<"f","e","t","c","h"," ","f","a","i","l","e","d">>)))  \* 'fetch failed'
    /\ UNCHANGED <<catVars, runVars, aggVars, cmdVars, fnVars, ccVars>>

\* fetch resolves with a response whose status is not 2xx
SynFetchNotOk ==
    /\ synPc = "fetch"
    /\ \E statusLine \in {<<"5","0","0"," ","I","n","t","e","r","n","a","l"," ","S","e","r","v","e","r"," ","E","r","r","o","r">>, <<"4","0","4"," ","N","o","t"," ","F","o","u","n","d">>} :  \* '500 Internal Server Error' '404 Not Found'
        SynSettle([kind |-> "notOk", statusLine |-> statusLine],
                  ollamaCatch(synOp, callOllamaNotOk(statusLine)))
    /\ UNCHANGED <<catVars, runVars, aggVars, cmdVars, fnVars, ccVars>>

\* fetch resolves with a 2xx response: callOllama awaits response.json()
SynFetchOk ==
    /\ synPc = "fetch"
    /\ synPc' = "json"
    /\ UNCHANGED <<backend, synOp, synDiff, synCalls, synRaw, synResult>>
    /\ UNCHANGED <<catVars, runVars, aggVars, cmdVars, fnVars, ccVars>>

\* response.json() rejects (the body is not JSON)
SynJsonRejects ==
    /\ synPc = "json"
    /\ SynSettle([kind |-> "jsonRejected"],
                 ollamaCatch(synOp, callOllamaJsonRejected(<<"U","n","e","x","p","e","c","t","e","d"," ","t","o","k","e","n"," ","<"," ","i","n"," ","J","S","O","N"," ","a","t"," ","p","o","s","i","t","i","o","n"," ","0">>)))  \* 'Unexpected token < in JSON at position 0'
    /\ UNCHANGED <<catVars, runVars, aggVars, cmdVars, fnVars, ccVars>>

\* response.json() resolves with a body
SynJsonResolves ==
    /\ synPc = "json"
    /\ \E data \in SynDataUniverse :
        SynSettle([kind |-> "data", data |-> data], ollamaCatch(synOp, callOllamaData(data)))
    /\ UNCHANGED <<catVars, runVars, aggVars, cmdVars, fnVars, ccVars>>

InitSynthesis ==
    /\ SynInit
    /\ RunIdle
    /\ catPath = <<>> /\ catResult = <<>>
    /\ analyses = <<>> /\ aggregate = <<>>
    /\ CmdIdle
    /\ FnIdle
    /\ CcIdle

NextSynthesis ==
    \/ SynCall
    \/ ClaudeCloses
    \/ ClaudeErrors
    \/ ClaudeTimesOut
    \/ SynFetchRejects
    \/ SynFetchNotOk
    \/ SynFetchOk
    \/ SynJsonRejects
    \/ SynJsonResolves

SpecSynthesis == InitSynthesis /\ [][NextSynthesis]_vars

----------------------------------------------------------------------------
(* lib/ollama.ts: checkOllamaAvailability, as what it returns for each      *)
(* outcome of GET /api/tags.                                                *)

commitGenerationModel == <<"l","l","a","m","a","3",":","l","a","t","e","s","t">>  \* 'llama3:latest'

RECURSIVE JoinWith(_, _)
\* Array.prototype.join(sep)
JoinWith(names, sep) ==
    IF Len(names) = 0 THEN <<>>
    ELSE IF Len(names) = 1 THEN names[1]
    ELSE names[1] \o sep \o JoinWith(Tail(names), sep)

\* modelNames.some(name => name.includes(model.split(':')[0]))
hasModel(modelNames, model) ==
    \E k \in 1..Len(modelNames) : Includes(modelNames[k], Split(model, ":")[1])

\* the value checkOllamaAvailability returns when the request ends as answer tells
checkOllamaAvailability(answer) ==
    IF answer.kind = "fetchRejected" \/ answer.kind = "jsonRejected"
    THEN [available |-> FALSE, error |-> answer.message]
    ELSE IF answer.kind = "notOk"
    THEN [available |-> FALSE, error |-> <<"O","l","l","a","m","a"," ","A","P","I"," ","r","e","t","u","r","n","e","d"," ">> \o answer.statusLine]  \* 'Ollama API returned '
    ELSE LET modelNames == IF "models" \in DOMAIN answer THEN answer.models ELSE <<>>
         IN  IF ~hasModel(modelNames, commitGenerationModel)
             THEN [available |-> FALSE,
                   error |-> <<"C","o","m","m","i","t"," ","g","e","n","e","r","a","t","i","o","n"," ","m","o","d","e","l"," ">> \o commitGenerationModel  \* 'Commit generation model '
                             \o <<" ","n","o","t"," ","f","o","u","n","d","."," ","A","v","a","i","l","a","b","l","e"," ","m","o","d","e","l","s",":"," ">> \o JoinWith(modelNames, <<","," ">>)]  \* ' not found. Available models: ' ', '
             ELSE IF ~hasModel(modelNames, fileAnalysisModel)
             THEN [available |-> FALSE,
                   error |-> <<"F","i","l","e"," ","a","n","a","l","y","s","i","s"," ","m","o","d","e","l"," ">> \o fileAnalysisModel  \* 'File analysis model '
                             \o <<" ","n","o","t"," ","f","o","u","n","d","."," ","A","v","a","i","l","a","b","l","e"," ","m","o","d","e","l","s",":"," ">> \o JoinWith(modelNames, <<","," ">>)]  \* ' not found. Available models: ' ', '
             ELSE [available |-> TRUE]

MaxModels == 2

\* the names of the models Ollama may list
ModelNames == {<<"l","l","a","m","a","3",":","l","a","t","e","s","t">>, <<"l","l","a","m","a","3",".","2",":","l","a","t","e","s","t">>, <<"m","i","s","t","r","a","l",":","l","a","t","e","s","t">>}  \* 'llama3:latest' 'llama3.2:latest' 'mistral:latest'

\* the bodies GET /api/tags may answer with
TagsUniverse ==
    { [kind |-> "data"] }
    \cup { [kind |-> "data", models |-> ms] :
             ms \in UNION {[1..n -> ModelNames] : n \in 0..MaxModels} }

----------------------------------------------------------------------------
(* commands/commit.ts: runCommit.  An action is the code that runs from the *)
(* settling of one await to the next await, to process.exit or to the       *)
(* return.                                                                  *)

MaxQuestions == 3

\* a call made, an answer read or the exit, as cmdTrace records it
CmdEvent(ev, arg) == [ev |-> ev, arg |-> arg]

\* the number of events ev recorded in tr
CmdCount(tr, ev) == Cardinality({k \in 1..Len(tr) : tr[k].ev = ev})

\* runCommit calls op and awaits it
CmdAwait(op, arg, tr) ==
    /\ cmdPc' = op
    /\ cmdTrace' = Append(tr, CmdEvent(op, arg))
    /\ exitCode' = exitCode

\* process.exit(code)
CmdExit(code, tr) ==
    /\ cmdPc' = "exited"
    /\ cmdTrace' = Append(tr, CmdEvent("exit", code))
    /\ exitCode' = <<code>>

\* runCommit returns
CmdReturn(tr) ==
    /\ cmdPc' = "returned"
    /\ cmdTrace' = tr
    /\ exitCode' = exitCode

\* the loop body up to its await: the proposed message is shown and the options asked
CmdAskOptions(tr) ==
    /\ CmdCount(tr, "question") < MaxQuestions
    /\ CmdAwait("question", "options", tr)

\* the messages the synthesis may return to runCommit
MessageUniverse == {<<"f","e","a","t",":"," ","a","d","d"," ","x">>, <<Backquote,Backquote,Backquote,"\n","f","i","x",":"," ","y","\n",Backquote,Backquote,Backquote>>}  \* 'feat: add x' '```\nfix: y\n```'

\* what the user may type at the options prompt
ChoiceUniverse == {<<"a">>, <<"A","c","c","e","p","t"," ">>, <<"e">>, <<"r">>, <<"c">>, <<"C","A","N","C","E","L">>, <<"x">>, <<>>}  \* 'a' 'Accept ' 'e' 'r' 'c' 'CANCEL' 'x'

\* what the user may type at the > prompt of the edit
LineUniverse == {<<".">>, <<" ","."," ">>, <<"f","i","x",":"," ","y">>}  \* '.' ' . ' 'fix: y'

CmdInit ==
    /\ cmdPc = "start" /\ exitCode = <<>> /\ commitMessage = <<>> /\ editedMessage = <<>>
    /\ ollamaCheck = <<>> /\ tags = <<>> /\ cmdTrace = <<>>

\* runCommit is called
RunCommit ==
    /\ cmdPc = "start"
    /\ CmdAwait("isGitRepository", <<>>, cmdTrace)
    /\ UNCHANGED <<commitMessage, editedMessage, ollamaCheck, tags>>
    /\ UNCHANGED <<catVars, runVars, aggVars, synVars, fnVars, ccVars>>

\* isGitRepository resolves (it never rejects)
IsGitRepositoryResolves ==
    /\ cmdPc = "isGitRepository"
    /\ \E isRepo \in BOOLEAN :
        LET tr == Append(cmdTrace, CmdEvent("isGitRepository:resolved", isRepo))
        IN  IF ~isRepo THEN CmdExit(1, tr)
            ELSE CmdAwait("tagsFetch", <<>>, tr)
    /\ UNCHANGED <<commitMessage, editedMessage, ollamaCheck, tags>>
    /\ UNCHANGED <<catVars, runVars, aggVars, synVars, fnVars, ccVars>>

\* runCommit going on to hasChanges whatever checkOllamaAvailability returned
CmdCheckedNoExit(answer, value) ==
    /\ tags' = <<answer>>
    /\ ollamaCheck' = <<value>>
    /\ CmdAwait("hasChanges", <<>>,
                Append(cmdTrace, CmdEvent("checkOllamaAvailability:resolved", value.available)))
    /\ UNCHANGED <<commitMessage, editedMessage>>
    /\ UNCHANGED <<catVars, runVars, aggVars, synVars, fnVars, ccVars>>

\* checkOllamaAvailability returns value to runCommit
CmdChecked(answer, value) ==
    /\ tags' = <<answer>>
    /\ ollamaCheck' = <<value>>
    /\ LET tr == Append(cmdTrace, CmdEvent("checkOllamaAvailability:resolved", value.available))
       IN  IF ~value.available THEN CmdExit(1, tr)
           ELSE CmdAwait("hasChanges", <<>>, tr)
    /\ UNCHANGED <<commitMessage, editedMessage>>
    /\ UNCHANGED <<catVars, runVars, aggVars, synVars, fnVars, ccVars>>

\* checkOllamaAvailability: fetch rejects, or resolves with a status that is not 2xx
TagsFetchFails ==
    /\ cmdPc = "tagsFetch"
    /\ \E answer \in {[kind |-> "fetchRejected", message |-> <<"f","e","t","c","h"," ","f","a","i","l","e","d">>],  \* 'fetch failed'
                      [kind |-> "notOk", statusLine |-> <<"5","0","0",":"," ","I","n","t","e","r","n","a","l"," ","S","e","r","v","e","r"," ","E","r","r","o","r">>]} :  \* '500: Internal Server Error'
        CmdChecked(answer, checkOllamaAvailability(answer))

\* checkOllamaAvailability: fetch resolves with a 2xx response, response.json() is awaited
TagsFetchOk ==
    /\ cmdPc = "tagsFetch"
    /\ cmdPc' = "tagsJson"
    /\ UNCHANGED <<exitCode, commitMessage, editedMessage, ollamaCheck, tags, cmdTrace>>
    /\ UNCHANGED <<catVars, runVars, aggVars, synVars, fnVars, ccVars>>

\* checkOllamaAvailability: response.json() rejects
TagsJsonRejects ==
    /\ cmdPc = "tagsJson"
    /\ LET answer == [kind |-> "jsonRejected", message |-> <<"U","n","e","x","p","e","c","t","e","d"," ","e","n","d"," ","o","f"," ","J","S","O","N"," ","i","n","p","u","t">>]  \* 'Unexpected end of JSON input'
       IN  CmdChecked(answer, checkOllamaAvailability(answer))

\* checkOllamaAvailability: response.json() resolves with a body
TagsJsonResolves ==
    /\ cmdPc = "tagsJson"
    /\ \E answer \in TagsUniverse : CmdChecked(answer, checkOllamaAvailability(answer))

\* hasChanges resolves or rejects
HasChangesSettles ==
    /\ cmdPc = "hasChanges"
    /\ \E outcome \in {"true", "false", "rejected"} :
        IF outcome = "rejected" THEN CmdExit(1, cmdTrace)
        ELSE IF outcome = "false" THEN CmdExit(0, cmdTrace)
        ELSE CmdAwait("stageAllChanges", <<>>, cmdTrace)
    /\ UNCHANGED <<commitMessage, editedMessage, ollamaCheck, tags>>
    /\ UNCHANGED <<catVars, runVars, aggVars, synVars, fnVars, ccVars>>

\* stageAllChanges (git add -A) resolves or rejects
StageAllChangesSettles ==
    /\ cmdPc = "stageAllChanges"
    /\ \E ok \in BOOLEAN :
        IF ~ok THEN CmdExit(1, cmdTrace)
        ELSE CmdAwait("getStatusChanges", <<>>, cmdTrace)
    /\ UNCHANGED <<commitMessage, editedMessage, ollamaCheck, tags>>
    /\ UNCHANGED <<catVars, runVars, aggVars, synVars, fnVars, ccVars>>

\* getStatusChanges resolves with fileChanges or rejects
GetStatusChangesSettles ==
    /\ cmdPc = "getStatusChanges"
    /\ \E outcome \in {"none", "some", "rejected"} :
        IF outcome = "rejected" THEN CmdExit(1, cmdTrace)
        ELSE IF outcome = "none" THEN CmdExit(0, cmdTrace)
        ELSE CmdAwait("analyzeChanges", <<>>, cmdTrace)
    /\ UNCHANGED <<commitMessage, editedMessage, ollamaCheck, tags>>
    /\ UNCHANGED <<catVars, runVars, aggVars, synVars, fnVars, ccVars>>

\* analyzeChanges resolves (it catches every error of its awaits)
AnalyzeChangesResolves ==
    /\ cmdPc = "analyzeChanges"
    /\ CmdAwait("generateCommitMessageFromAnalysis", <<>>, cmdTrace)
    /\ UNCHANGED <<commitMessage, editedMessage, ollamaCheck, tags>>
    /\ UNCHANGED <<catVars, runVars, aggVars, synVars, fnVars, ccVars>>

\* the first generateCommitMessageFromAnalysis resolves with a message, or rejects
\* and the catch block of runCommit exits
GenerateSettles ==
    /\ cmdPc = "generateCommitMessageFromAnalysis"
    /\ \/ /\ CmdExit(1, cmdTrace)
          /\ UNCHANGED commitMessage
       \/ \E message \in MessageUniverse :
            /\ commitMessage' = message
            /\ CmdAskOptions(cmdTrace)
    /\ UNCHANGED <<editedMessage, ollamaCheck, tags>>
    /\ UNCHANGED <<catVars, runVars, aggVars, synVars, fnVars, ccVars>>

\* the user answers the options prompt: the switch on choice.toLowerCase().trim()
QuestionAnswered ==
    /\ cmdPc = "question"
    /\ \E choice \in ChoiceUniverse :
        LET c  == Trim(ToLowerCase(choice))
            tr == Append(cmdTrace, CmdEvent("answer", c))
        IN  IF c \in {<<"a">>, <<"a","c","c","e","p","t">>}  \* 'a' 'accept'
            THEN /\ CmdAwait("commit", commitMessage, tr)
                 /\ UNCHANGED editedMessage
            ELSE IF c \in {<<"e">>, <<"e","d","i","t">>}  \* 'e' 'edit'
            THEN /\ editedMessage' = <<>>
                 /\ CmdCount(tr, "question") + CmdCount(tr, "editLine") < MaxQuestions
                 /\ CmdAwait("editLine", <<>>, tr)
            ELSE IF c \in {<<"r">>, <<"r","e","g","e","n","e","r","a","t","e">>}  \* 'r' 'regenerate'
            THEN /\ CmdAwait("regenerate", <<>>, tr)
                 /\ UNCHANGED editedMessage
            ELSE IF c \in {<<"c">>, <<"c","a","n","c","e","l">>}  \* 'c' 'cancel'
            THEN /\ CmdExit(0, tr)
                 /\ UNCHANGED editedMessage
            ELSE /\ CmdAskOptions(tr)
                 /\ UNCHANGED editedMessage
    /\ UNCHANGED <<commitMessage, ollamaCheck, tags>>
    /\ UNCHANGED <<catVars, runVars, aggVars, synVars, fnVars, ccVars>>

\* the user answers the > prompt of the edit
EditLineAnswered ==
    /\ cmdPc = "editLine"
    /\ \E line \in LineUniverse :
        LET tr == Append(cmdTrace, CmdEvent("line", line))
        IN  IF Trim(line) = <<".">>  \* '.'
            THEN /\ commitMessage' = Trim(editedMessage)
                 /\ UNCHANGED editedMessage
                 /\ IF Len(Trim(editedMessage)) = 0
                    THEN CmdAskOptions(tr)
                    ELSE CmdAwait("commit", Trim(editedMessage), tr)
            ELSE /\ editedMessage' = editedMessage \o line \o <<"\n">>
                 /\ CmdCount(tr, "question") + CmdCount(tr, "editLine") < MaxQuestions
                 /\ CmdAwait("editLine", <<>>, tr)
                 /\ UNCHANGED commitMessage
    /\ UNCHANGED <<ollamaCheck, tags>>
    /\ UNCHANGED <<catVars, runVars, aggVars, synVars, fnVars, ccVars>>

\* the generateCommitMessageFromAnalysis of the regenerate option resolves, or rejects
\* and the message is kept
RegenerateSettles ==
    /\ cmdPc = "regenerate"
    /\ \/ UNCHANGED commitMessage
       \/ \E message \in MessageUniverse : commitMessage' = message
    /\ CmdAskOptions(cmdTrace)
    /\ UNCHANGED <<editedMessage, ollamaCheck, tags>>
    /\ UNCHANGED <<catVars, runVars, aggVars, synVars, fnVars, ccVars>>

\* commit settling without the exit of its catch block
CommitSettlesNoExit ==
    /\ cmdPc = "commit"
    /\ \E ok \in BOOLEAN :
        CmdAwait("pushQuestion", <<>>, Append(cmdTrace, CmdEvent("commit:settled", ok)))
    /\ UNCHANGED <<commitMessage, editedMessage, ollamaCheck, tags>>
    /\ UNCHANGED <<catVars, runVars, aggVars, synVars, fnVars, ccVars>>

\* commit (git commit -m) resolves, or rejects and the catch block exits
CommitSettles ==
    /\ cmdPc = "commit"
    /\ \E ok \in BOOLEAN :
        LET tr == Append(cmdTrace, CmdEvent("commit:settled", ok))
        IN  IF ~ok THEN CmdExit(1, tr)
            ELSE CmdAwait("pushQuestion", <<>>, tr)
    /\ UNCHANGED <<commitMessage, editedMessage, ollamaCheck, tags>>
    /\ UNCHANGED <<catVars, runVars, aggVars, synVars, fnVars, ccVars>>

\* the user answers the push prompt
PushQuestionAnswered ==
    /\ cmdPc = "pushQuestion"
    /\ \E pushChoice \in {<<"y">>, <<" ","Y"," ">>, <<"y","e","s">>, <<"n">>, <<>>} :  \* 'y' ' Y ' 'yes' 'n'
        LET tr == Append(cmdTrace, CmdEvent("pushAnswer", Trim(ToLowerCase(pushChoice))))
        IN  IF Trim(ToLowerCase(pushChoice)) = <<"y">>  \* 'y'
            THEN CmdAwait("push", <<>>, tr)
            ELSE CmdReturn(tr)
    /\ UNCHANGED <<commitMessage, editedMessage, ollamaCheck, tags>>
    /\ UNCHANGED <<catVars, runVars, aggVars, synVars, fnVars, ccVars>>

\* push (git push) resolves, or rejects and the failure is reported; runCommit returns
PushSettles ==
    /\ cmdPc = "push"
    /\ \E ok \in BOOLEAN : CmdReturn(Append(cmdTrace, CmdEvent("push:settled", ok)))
    /\ UNCHANGED <<commitMessage, editedMessage, ollamaCheck, tags>>
    /\ UNCHANGED <<catVars, runVars, aggVars, synVars, fnVars, ccVars>>

InitCommit ==
    /\ CmdInit
    /\ RunIdle
    /\ catPath = <<>> /\ catResult = <<>>
    /\ analyses = <<>> /\ aggregate = <<>>
    /\ SynIdle
    /\ FnIdle
    /\ CcIdle

NextCommit ==
    \/ RunCommit
    \/ IsGitRepositoryResolves
    \/ TagsFetchFails
    \/ TagsFetchOk
    \/ TagsJsonRejects
    \/ TagsJsonResolves
    \/ HasChangesSettles
    \/ StageAllChangesSettles
    \/ GetStatusChangesSettles
    \/ AnalyzeChangesResolves
    \/ GenerateSettles
    \/ QuestionAnswered
    \/ EditLineAnswered
    \/ RegenerateSettles
    \/ CommitSettles
    \/ PushQuestionAnswered
    \/ PushSettles

SpecCommit == InitCommit /\ [][NextCommit]_vars
----------------------------------------------------------------------------
(* The pure functions applied on their own: the argument is drawn in the   *)
(* initial state and one action applies the function to it.                *)

\* the responses parseAnalysisResponse is applied to: at most one SUMMARY: line
\* and at most one IMPACT: line each, present or missing, with and without text
ParseUniverse ==
    ResponseUniverse \cup
    { <<"I","M","P","A","C","T",":"," ","M","A","J","O","R","\n","S","U","M","M","A","R","Y",":"," ","A","d","d"," ","p","a","r","s","e","r">>,  \* 'IMPACT: MAJOR\nSUMMARY: Add parser'
      <<"S","U","M","M","A","R","Y",":"," ","A","d","d"," ","p","a","r","s","e","r">>,  \* 'SUMMARY: Add parser'
      <<"S","U","M","M","A","R","Y",":"," ","A","d","d"," ","p","a","r","s","e","r","\n","I","M","P","A","C","T",":"," ","h","u","g","e">>,  \* 'SUMMARY: Add parser\nIMPACT: huge'
      <<"I","M","P","A","C","T",":"," ","t","r","i","v","i","a","l">>,  \* 'IMPACT: trivial'
      <<"S","U","M","M","A","R","Y",":"," "," "," ","\n","I","M","P","A","C","T",":"," ","h","u","g","e">>,  \* 'SUMMARY:   \nIMPACT: huge'
      <<"S","u","r","e","!","\n","S","U","M","M","A","R","Y",":"," ","R","e","n","a","m","e"," ","h","e","l","p","e","r","\n","I","M","P","A","C","T",":"," "," ","M","i","n","o","r"," ","\n","T","h","a","n","k","s">>,  \* 'Sure!\nSUMMARY: Rename helper\nIMPACT:  Minor \nThanks'
      <<" ","S","U","M","M","A","R","Y",":"," ","i","n","d","e","n","t","e","d","\n","i","m","p","a","c","t",":"," ","m","a","j","o","r">>,  \* ' SUMMARY: indented\nimpact: major'
      <<"I","M","P","A","C","T",":","\n","S","U","M","M","A","R","Y",":","S","U","M","M","A","R","Y",":"," ","t","w","i","c","e">> }  \* 'IMPACT:\nSUMMARY:SUMMARY: twice'

ParseArgs == [file : FileUniverse, response : ParseUniverse]

\* parseAnalysisResponse(file, category, response) of analyzeFileChange returns
ApplyParseAnalysisResponse ==
    /\ fnName = "parseAnalysisResponse"
    /\ fnOut = <<>>
    /\ fnOut' = <<parseAnalysisResponse(fnArg.file, categoryOf[fnArg.file], fnArg.response)>>
    /\ UNCHANGED <<fnName, fnArg, catVars, runVars, aggVars, synVars, cmdVars, ccVars>>

\* what git diff --cached prints for a file with n added and k removed lines
\* around one context line
MixedDiffText(n, k) ==
    <<"d","i","f","f"," ","-","-","g","i","t"," ","a","/","f"," ","b","/","f","\n","-","-","-"," ","a","/","f","\n","+","+","+"," ","b","/","f","\n","@","@"," ","-","1",",","2"," ","+","1",",","2"," ","@","@","\n">>  \* 'diff --git a/f b/f\n--- a/f\n+++ b/f\n@@ -1,2 +1,2 @@\n'
        \o Repeat(<<"-","y","\n">>, k) \o <<" ","z","\n">> \o Repeat(<<"+","x","\n">>, n)  \* '-y\n' ' z\n' '+x\n'

\* the diffs estimateImpactFromDiff is applied to, as getFileDiff returns them
\* (trimmed): 0 to 150 content lines, on both sides of the limits 10 and 100
EstimateUniverse ==
    { Trim(DiffText(n)) : n \in {0, 3, 8, 9, 10, 11, 15, 98, 99, 100, 101, 150} }
        \cup { Trim(MixedDiffText(5, 4)), Trim(MixedDiffText(5, 5)),
               Trim(MixedDiffText(50, 49)), Trim(MixedDiffText(50, 50)) }

\* estimateImpactFromDiff(diff) of createFallbackAnalysis returns
ApplyEstimateImpactFromDiff ==
    /\ fnName = "estimateImpactFromDiff"
    /\ fnOut = <<>>
    /\ fnOut' = <<estimateImpactFromDiff(fnArg)>>
    /\ UNCHANGED <<fnName, fnArg, catVars, runVars, aggVars, synVars, cmdVars, ccVars>>

----------------------------------------------------------------------------
(* lib/ollama.ts and lib/claude.ts: buildAnalysisContext (the two copies   *)
(* are the same text).                                                     *)

\* analyses.filter(a => a.impact === impact)
filterImpact(fas, impact) == SelectSeq(fas, LAMBDA a : a.impact = impact)

RECURSIVE majorMinorLines(_)
\* the forEach over the major or the minor changes: one bullet line each
majorMinorLines(fas) ==
    IF fas = <<>> THEN <<>>
    ELSE <<"-"," ">> \o Head(fas).file.path \o <<" ","(">> \o Head(fas).file.status \o <<")",":"," ">>  \* '- ' ' (' '): '
            \o Head(fas).summary \o <<"\n">> \o majorMinorLines(Tail(fas))  \* '\n'

RECURSIVE trivialLines(_)
\* the forEach over the trivial changes: one bullet line each
trivialLines(fas) ==
    IF fas = <<>> THEN <<>>
    ELSE <<"-"," ">> \o Head(fas).file.path \o <<":"," ">> \o Head(fas).summary \o <<"\n">>  \* '- ' ': ' '\n'
            \o trivialLines(Tail(fas))

\* the trivial part of the context listing the files whatever their number
trivialPartNoLimit(trivialChanges) ==
    IF Len(trivialChanges) > 0
    THEN <<"\n","T","r","i","v","i","a","l"," ","C","h","a","n","g","e","s",":","\n">> \o trivialLines(trivialChanges)  \* '\nTrivial Changes:\n'
    ELSE <<>>

\* the trivial part of the context: the files, or their number when above 5
trivialPart(trivialChanges) ==
    IF Len(trivialChanges) > 0 /\ Len(trivialChanges) <= 5
    THEN <<"\n","T","r","i","v","i","a","l"," ","C","h","a","n","g","e","s",":","\n">> \o trivialLines(trivialChanges)  \* '\nTrivial Changes:\n'
    ELSE IF Len(trivialChanges) > 5
    THEN <<"\n","T","r","i","v","i","a","l"," ","C","h","a","n","g","e","s",":"," ">> \o NumberText(Len(trivialChanges))  \* '\nTrivial Changes: '
            \o <<" ","f","i","l","e","s"," ","(","t","o","o","l","i","n","g",","," ","g","e","n","e","r","a","t","e","d"," ","f","i","l","e","s",","," ","e","t","c",".",")","\n">>  \* ' files (tooling, generated files, etc.)\n'
    ELSE <<>>

buildAnalysisContext(fas, overallScope, suggestedCommitType) ==
    LET majorChanges == filterImpact(fas, <<"m","a","j","o","r">>)  \* 'major'
        minorChanges == filterImpact(fas, <<"m","i","n","o","r">>)  \* 'minor'
        trivialChanges == filterImpact(fas, <<"t","r","i","v","i","a","l">>)  \* 'trivial'
    IN  <<"A","n","a","l","y","s","i","s"," ","S","u","m","m","a","r","y",":","\n","-"," ","O","v","e","r","a","l","l"," ","s","c","o","p","e",":"," ">> \o overallScope  \* 'Analysis Summary:\n- Overall scope: '
            \o <<"\n","-"," ","S","u","g","g","e","s","t","e","d"," ","t","y","p","e",":"," ">> \o suggestedCommitType  \* '\n- Suggested type: '
            \o <<"\n","-"," ","T","o","t","a","l"," ","f","i","l","e","s"," ","c","h","a","n","g","e","d",":"," ">> \o NumberText(Len(fas))  \* '\n- Total files changed: '
            \o <<"\n","\n","F","i","l","e"," ","C","h","a","n","g","e","s",":","\n">>  \* '\n\nFile Changes:\n'
            \o (IF Len(majorChanges) > 0
                THEN <<"\n","M","a","j","o","r"," ","C","h","a","n","g","e","s",":","\n">> \o majorMinorLines(majorChanges) ELSE <<>>)  \* '\nMajor Changes:\n'
            \o (IF Len(minorChanges) > 0
                THEN <<"\n","M","i","n","o","r"," ","C","h","a","n","g","e","s",":","\n">> \o majorMinorLines(minorChanges) ELSE <<>>)  \* '\nMinor Changes:\n'
            \o trivialPart(trivialChanges)

\* the analyses a context is built from: any list of up to MaxContextHead of them
\* followed by up to MaxTrivialRun trivial ones
MaxContextHead == 2
MaxTrivialRun == 6

ContextPool ==
    { [file |-> [path |-> <<"s","r","c","/","a",".","t","s">>, status |-> <<"a","d","d","e","d">>],  \* 'src/a.ts' 'added'
       category |-> categorizeFile(<<"s","r","c","/","a",".","t","s">>), summary |-> <<"A","d","d"," ","p","a","r","s","e","r">>, impact |-> <<"m","a","j","o","r">>],  \* 'src/a.ts' 'Add parser' 'major'
      [file |-> [path |-> <<"s","r","c","/","b",".","t","s">>, status |-> <<"m","o","d","i","f","i","e","d">>],  \* 'src/b.ts' 'modified'
       category |-> categorizeFile(<<"s","r","c","/","b",".","t","s">>), summary |-> <<"F","i","x"," ","t","y","p","o">>, impact |-> <<"m","a","j","o","r">>],  \* 'src/b.ts' 'Fix typo' 'major'
      [file |-> [path |-> <<"R","E","A","D","M","E",".","m","d">>, status |-> <<"m","o","d","i","f","i","e","d">>],  \* 'README.md' 'modified'
       category |-> categorizeFile(<<"R","E","A","D","M","E",".","m","d">>), summary |-> <<"U","p","d","a","t","e"," ","d","o","c","s">>, impact |-> <<"m","i","n","o","r">>],  \* 'README.md' 'Update docs' 'minor'
      [file |-> [path |-> <<"a","p","p",".","j","s","o","n">>, status |-> <<"d","e","l","e","t","e","d">>],  \* 'app.json' 'deleted'
       category |-> categorizeFile(<<"a","p","p",".","j","s","o","n">>), summary |-> <<"R","e","m","o","v","e"," ","a","p","p",".","j","s","o","n">>, impact |-> <<"m","i","n","o","r">>],  \* 'app.json' 'Remove app.json' 'minor'
      [file |-> [path |-> <<"y","a","r","n",".","l","o","c","k">>, status |-> <<"m","o","d","i","f","i","e","d">>],  \* 'yarn.lock' 'modified'
       category |-> categorizeFile(<<"y","a","r","n",".","l","o","c","k">>), summary |-> <<"U","p","d","a","t","e"," ","p","a","c","k","a","g","e"," ","d","e","p","e","n","d","e","n","c","i","e","s">>, impact |-> <<"t","r","i","v","i","a","l">>] }  \* 'yarn.lock' 'Update package dependencies' 'trivial'

\* the k-th generated file of a run of trivial changes
TrivialFile(k) ==
    [file |-> [path |-> <<"d","i","s","t","/">> \o NumberText(k) \o <<".","j","s">>, status |-> <<"m","o","d","i","f","i","e","d">>],  \* 'dist/' '.js' 'modified'
     category |-> categorizeFile(<<"d","i","s","t","/">> \o NumberText(k) \o <<".","j","s">>),  \* 'dist/' '.js'
     summary |-> <<"U","p","d","a","t","e"," ","b","u","i","l","d"," ","o","u","t","p","u","t">>,  \* 'Update build output'
     impact |-> <<"t","r","i","v","i","a","l">>]  \* 'trivial'

ContextLists ==
    { head \o [k \in 1..n |-> TrivialFile(k)] :
        head \in UNION {[1..h -> ContextPool] : h \in 0..MaxContextHead},
        n \in 0..MaxTrivialRun }

\* buildAnalysisContext(fileAnalyses, overallScope, suggestedCommitType) returns
ApplyBuildAnalysisContext ==
    /\ fnName = "buildAnalysisContext"
    /\ fnOut = <<>>
    /\ fnOut' = <<buildAnalysisContext(fnArg, determineOverallScope(fnArg),
                                       suggestCommitType(fnArg))>>
    /\ UNCHANGED <<fnName, fnArg, catVars, runVars, aggVars, synVars, cmdVars, ccVars>>

----------------------------------------------------------------------------
(* lib/analysis.ts: analyzeFileChange with the prompt it builds.           *)

\* the number of characters of a diff a prompt carries at most
DiffCap == 5000

\* the diff embedded whole, whatever its length
truncatedDiffWhole(d) == d

\* const truncatedDiff of createAnalysisPrompt
truncatedDiff(d) ==
    IF Len(d) > DiffCap
    THEN SubSeq(d, 1, DiffCap) \o <<"\n",".",".","."," ","(","d","i","f","f"," ","t","r","u","n","c","a","t","e","d",")">>  \* '\n... (diff truncated)'
    ELSE d

\* the key of SYSTEM_PROMPTS the switch on category.type selects
systemPromptKey(category) ==
    IF category.type = <<"c","o","d","e">> THEN "codeAnalysis"  \* 'code'
    ELSE IF category.type = <<"t","e","s","t">> THEN "testAnalysis"  \* 'test'
    ELSE IF category.type = <<"d","o","c","u","m","e","n","t","a","t","i","o","n">> THEN "documentationAnalysis"  \* 'documentation'
    ELSE IF category.type = <<"c","o","n","f","i","g","u","r","a","t","i","o","n">> THEN "configurationAnalysis"  \* 'configuration'
    ELSE "codeAnalysis"

createAnalysisPrompt(file, category, d) ==
    [prompt |->
        <<"A","n","a","l","y","z","e"," ","t","h","i","s"," ">> \o category.type \o <<" ","f","i","l","e"," ","c","h","a","n","g","e",":","\n","\n","F","i","l","e",":"," ">> \o file.path  \* 'Analyze this ' ' file change:\n\nFile: '
        \o <<"\n","S","t","a","t","u","s",":"," ">> \o file.status \o <<"\n">>  \* '\nStatus: ' '\n'
        \o (IF "oldPath" \in DOMAIN file /\ file.oldPath # <<>>
            THEN <<"O","l","d"," ","p","a","t","h",":"," ">> \o file.oldPath ELSE <<>>)  \* 'Old path: '
        \o <<"\n","\n","D","i","f","f",":","\n">> \o truncatedDiff(d)  \* '\n\nDiff:\n'
        \o <<"\n","\n","R","e","s","p","o","n","d"," ","w","i","t","h"," ","e","x","a","c","t","l","y"," ","t","h","i","s"," ","f","o","r","m","a","t",":","\n">>  \* '\n\nRespond with exactly this format:\n'
        \o <<"S","U","M","M","A","R","Y",":"," ","[","B","r","i","e","f"," ","d","e","s","c","r","i","p","t","i","o","n"," ","o","f"," ","w","h","a","t"," ","c","h","a","n","g","e","d","]","\n">>  \* 'SUMMARY: [Brief description of what changed]\n'
        \o <<"I","M","P","A","C","T",":"," ","[","m","a","j","o","r","/","m","i","n","o","r","/","t","r","i","v","i","a","l"," ","-"," ","b","a","s","e","d"," ","o","n"," ","s","c","o","p","e"," ","a","n","d"," ","i","m","p","o","r","t","a","n","c","e","]","\n","\n">>  \* 'IMPACT: [major/minor/trivial - based on scope and importance]\n\n'
        \o <<"G","u","i","d","e","l","i","n","e","s"," ","f","o","r"," ","I","M","P","A","C","T",":","\n">>  \* 'Guidelines for IMPACT:\n'
        \o <<"-"," ","m","a","j","o","r",":"," ","N","e","w"," ","f","e","a","t","u","r","e","s",","," ","b","r","e","a","k","i","n","g"," ","c","h","a","n","g","e","s",","," ","s","i","g","n","i","f","i","c","a","n","t"," ","r","e","f","a","c","t","o","r","i","n","g","\n">>  \* '- major: New features, breaking changes, significant refactoring\n'
        \o <<"-"," ","m","i","n","o","r",":"," ","B","u","g"," ","f","i","x","e","s",","," ","s","m","a","l","l"," ","e","n","h","a","n","c","e","m","e","n","t","s",","," ","d","o","c","u","m","e","n","t","a","t","i","o","n"," ","u","p","d","a","t","e","s"," "," ","\n">>  \* '- minor: Bug fixes, small enhancements, documentation updates  \n'
        \o <<"-"," ","t","r","i","v","i","a","l",":"," ","F","o","r","m","a","t","t","i","n","g",","," ","c","o","m","m","e","n","t","s",","," ","m","i","n","o","r"," ","c","o","n","f","i","g"," ","t","w","e","a","k","s">>,  \* '- trivial: Formatting, comments, minor config tweaks'
     systemPrompt |-> systemPromptKey(category)]

\* the first n characters of the diff of a file with many added lines
LongDiff(n) == SubSeq(DiffText(2000), 1, n)

\* the diffs analyzeFileChange is given: a short one, and long ones around the cap
PromptDiffUniverse ==
    { Trim(DiffText(1)), LongDiff(DiffCap - 1), LongDiff(DiffCap), LongDiff(DiffCap + 1),
      LongDiff(DiffCap + 100) }

\* the files whose diff is analyzed by the backend
PromptFiles == {f \in FileUniverse : categoryOf[f].needsAnalysis}

PromptArgs == [file : PromptFiles, diff : PromptDiffUniverse]

\* analyzeFileChange(file, category, diff) up to its await: the prompt is built and
\* callOllamaForFileAnalysis is called with it
AnalyzeFileChangeCalls ==
    /\ fnName = "analyzeFileChange"
    /\ fnOut = <<>>
    /\ ~isBlankDiff(fnArg.diff)
    /\ fnOut' = <<createAnalysisPrompt(fnArg.file, categoryOf[fnArg.file], fnArg.diff)>>
    /\ UNCHANGED <<fnName, fnArg, catVars, runVars, aggVars, synVars, cmdVars, ccVars>>

\* callOllamaForFileAnalysis resolves with a response: it is parsed
AnalyzeFileChangeResolves ==
    /\ fnName = "analyzeFileChange"
    /\ Len(fnOut) = 1
    /\ \E response \in ResponseUniverse :
        fnOut' = Append(fnOut,
                    parseAnalysisResponse(fnArg.file, categoryOf[fnArg.file], response))
    /\ UNCHANGED <<fnName, fnArg, catVars, runVars, aggVars, synVars, cmdVars, ccVars>>

\* callOllamaForFileAnalysis rejects: the fallback analysis of the whole diff
AnalyzeFileChangeRejects ==
    /\ fnName = "analyzeFileChange"
    /\ Len(fnOut) = 1
    /\ fnOut' = Append(fnOut,
                    createFallbackAnalysis(fnArg.file, categoryOf[fnArg.file], fnArg.diff))
    /\ UNCHANGED <<fnName, fnArg, catVars, runVars, aggVars, synVars, cmdVars, ccVars>>

----------------------------------------------------------------------------
(* lib/claude.ts: sanitizeMessage applied to a message, and to its result. *)

\* the messages sanitizeMessage is applied to
SanitizeUniverse ==
    RawUniverse \cup { <<" ",Backquote,Backquote,Backquote,"t","e","x","t","\n","f","i","x",":"," ","y","\n",Backquote,Backquote,Backquote>>, <<"f","i","x",":"," ","c","l","o","s","e"," ","t","h","e"," ","f","e","n","c","e"," ",Backquote,Backquote,Backquote," ">> }  \* ' ```text\nfix: y\n```' 'fix: close the fence ``` '

\* sanitizeMessage(message) returns
ApplySanitizeMessage ==
    /\ fnName = "sanitizeMessage"
    /\ fnOut = <<>>
    /\ fnOut' = <<sanitizeMessage(fnArg)>>
    /\ UNCHANGED <<fnName, fnArg, catVars, runVars, aggVars, synVars, cmdVars, ccVars>>

\* sanitizeMessage is applied to the message it returned
ApplySanitizeMessageAgain ==
    /\ fnName = "sanitizeMessage"
    /\ Len(fnOut) = 1
    /\ fnOut' = Append(fnOut, sanitizeMessage(fnOut[1]))
    /\ UNCHANGED <<fnName, fnArg, catVars, runVars, aggVars, synVars, cmdVars, ccVars>>

InitFunctions ==
    /\ \/ fnName = "parseAnalysisResponse" /\ fnArg \in ParseArgs
       \/ fnName = "estimateImpactFromDiff" /\ fnArg \in EstimateUniverse
       \/ fnName = "buildAnalysisContext" /\ fnArg \in ContextLists
       \/ fnName = "analyzeFileChange" /\ fnArg \in PromptArgs
       \/ fnName = "sanitizeMessage" /\ fnArg \in SanitizeUniverse
    /\ fnOut = <<>>
    /\ catPath = <<>> /\ catResult = <<>>
    /\ RunIdle
    /\ analyses = <<>> /\ aggregate = <<>>
    /\ SynIdle
    /\ CmdIdle
    /\ CcIdle

NextFunctions ==
    \/ ApplyParseAnalysisResponse
    \/ ApplyEstimateImpactFromDiff
    \/ ApplyBuildAnalysisContext
    \/ AnalyzeFileChangeCalls
    \/ AnalyzeFileChangeResolves
    \/ AnalyzeFileChangeRejects
    \/ ApplySanitizeMessage
    \/ ApplySanitizeMessageAgain

SpecFunctions == InitFunctions /\ [][NextFunctions]_vars

----------------------------------------------------------------------------
(* lib/claude.ts: callClaude, event by event. The executor of the promise   *)
(* spawns the subprocess, registers the handlers and arms the timer; then   *)
(* the data, close and error events of the subprocess and the timer run     *)
(* their handlers in the order in which they happen.                        *)

\* the longest output collected from the subprocess, in characters
MaxOutput == 24

\* what the subprocess writes in one piece
StdoutChunks == { <<Backquote,Backquote,Backquote,"\n">>, <<"f","e","a","t",":"," ","a","d","d"," ","p","a","r","s","e","r","\n">>, <<Backquote,Backquote,Backquote>> }  \* '```\n' 'feat: add parser\n' '```'
StderrChunks == { <<"w","a","r","n","i","n","g",":"," ","s","l","o","w","\n">> }  \* 'warning: slow\n'

\* the messages of the error event
SpawnErrors == { <<"s","p","a","w","n"," ","c","l","a","u","d","e"," ","E","N","O","E","N","T">>, <<"s","p","a","w","n"," ","c","l","a","u","d","e"," ","E","A","C","C","E","S">> }  \* 'spawn claude ENOENT' 'spawn claude EACCES'

\* how the subprocess may end: with an exit code when it ran, with the errno of
\* the failed spawn, with the signal of child.kill()
Exits(child) ==
    IF child = "failed" THEN { [code |-> -2] }
    ELSE IF child = "killed" THEN { [signal |-> "SIGTERM"], [code |-> 0], [code |-> 1] }
    ELSE { [code |-> 0], [code |-> 1] }

\* the first close handler for the exit: the code is null for a signal, and
\* negative for a failed spawn
closeHandler(exit, stdout, stderr) ==
    IF "signal" \in DOMAIN exit
    THEN <<"error", <<"C","l","a","u","d","e"," ","C","L","I"," ","e","x","i","t","e","d"," ","w","i","t","h"," ","c","o","d","e"," ","n","u","l","l","."," ","s","t","d","e","r","r",":"," ">> \o stderr>>  \* 'Claude CLI exited with code null. stderr: '
    ELSE IF exit.code < 0
    THEN <<"error", <<"C","l","a","u","d","e"," ","C","L","I"," ","e","x","i","t","e","d"," ","w","i","t","h"," ","c","o","d","e"," ","-">> \o NumberText(-exit.code)  \* 'Claude CLI exited with code -'
                        \o <<"."," ","s","t","d","e","r","r",":"," ">> \o stderr>>  \* '. stderr: '
    ELSE callClaudeClose(exit.code, stdout, stderr)

\* a call of resolve or reject: only the first one settles the promise
settle(promise, value) == IF promise = <<>> THEN <<value>> ELSE promise

\* the second close handler left out: the timer stays as it is
clearTimeoutMissing(timer) == timer

\* clearTimeout(timeout): an armed timer is cancelled, a fired one stays fired
clearTimeout(timer) == IF timer = "armed" THEN "cleared" ELSE timer

\* resolve or reject is called with the value by the handler named
CcSettle(by, value) ==
    /\ ccCalls' = Append(ccCalls, [by |-> by, value |-> value])
    /\ ccPromise' = settle(ccPromise, value)

\* callClaude(prompt): the executor runs to its end
CallClaude ==
    /\ ccChild = "none"
    /\ ccChild' = "running"
    /\ ccTimer' = "armed"
    /\ UNCHANGED <<ccStdout, ccStderr, ccKills, ccPromise, ccCalls>>
    /\ UNCHANGED <<catVars, runVars, aggVars, synVars, cmdVars, fnVars>>

\* child.stdout emits data
StdoutData ==
    /\ ccChild \in {"running", "killed"}
    /\ \E data \in StdoutChunks :
        /\ Len(ccStdout) + Len(data) <= MaxOutput
        /\ ccStdout' = ccStdout \o data
    /\ UNCHANGED <<ccChild, ccStderr, ccTimer, ccKills, ccPromise, ccCalls>>
    /\ UNCHANGED <<catVars, runVars, aggVars, synVars, cmdVars, fnVars>>

\* child.stderr emits data
StderrData ==
    /\ ccChild \in {"running", "killed"}
    /\ \E data \in StderrChunks :
        /\ Len(ccStderr) + Len(data) <= MaxOutput
        /\ ccStderr' = ccStderr \o data
    /\ UNCHANGED <<ccChild, ccStdout, ccTimer, ccKills, ccPromise, ccCalls>>
    /\ UNCHANGED <<catVars, runVars, aggVars, synVars, cmdVars, fnVars>>

\* the child emits close: both close handlers run
ChildCloses ==
    /\ ccChild \in {"running", "failed", "killed"}
    /\ \E exit \in Exits(ccChild) : CcSettle("close", closeHandler(exit, ccStdout, ccStderr))
    /\ ccTimer' = clearTimeout(ccTimer)
    /\ ccChild' = "closed"
    /\ UNCHANGED <<ccStdout, ccStderr, ccKills>>
    /\ UNCHANGED <<catVars, runVars, aggVars, synVars, cmdVars, fnVars>>

\* the child emits error: the subprocess could not be spawned
ChildErrors ==
    /\ ccChild = "running"
    /\ ccStdout = <<>> /\ ccStderr = <<>>
    /\ \E message \in SpawnErrors : CcSettle("error", <<"error", message>>)
    /\ ccChild' = "failed"
    /\ UNCHANGED <<ccStdout, ccStderr, ccTimer, ccKills>>
    /\ UNCHANGED <<catVars, runVars, aggVars, synVars, cmdVars, fnVars>>

\* the 30 s timer fires: child.kill() and reject
TimerFires ==
    /\ ccTimer = "armed"
    /\ ccTimer' = "fired"
    /\ ccKills' = ccKills + 1
    /\ ccChild' = IF ccChild = "running" THEN "killed" ELSE ccChild
    /\ CcSettle("timer", callClaudeTimeout)
    /\ UNCHANGED <<ccStdout, ccStderr>>
    /\ UNCHANGED <<catVars, runVars, aggVars, synVars, cmdVars, fnVars>>

InitCallClaude ==
    /\ CcIdle
    /\ catPath = <<>> /\ catResult = <<>>
    /\ RunIdle
    /\ analyses = <<>> /\ aggregate = <<>>
    /\ SynIdle
    /\ CmdIdle
    /\ FnIdle

NextCallClaude ==
    \/ CallClaude
    \/ StdoutData
    \/ StderrData
    \/ ChildCloses
    \/ ChildErrors
    \/ TimerFires

\* the timer fires unless it is cancelled
SpecCallClaude == InitCallClaude /\ [][NextCallClaude]_vars /\ WF_vars(TimerFires)

---------------------------------------------------------------------------
(* Properties of analyzeChanges (specifications Spec and FairSpec).        *)

\* the number of events ev recorded for the file at position k
Count(ev, k) == Cardinality({n \in 1..Len(trace) : trace[n].ev = ev /\ trace[n].file = k})

\* the step appends events to the trace and the first of them is ev
StepBeginsWith(ev) ==
    /\ Len(trace') > Len(trace)
    /\ trace'[Len(trace) + 1].ev = ev

\* the files the loop has entered so far
Entered == IF pc = "start" THEN 0 ELSE IF pc = "returned" THEN Len(files) ELSE i

InFlight == pc \in {"getFileDiff", "fetch", "json"}

\* C1: analyzeChanges returns exactly one FileAnalysis per input file, the k-th
\* describing the k-th file, whatever the outcomes of the diff fetches and of the
\* backend calls were; until it returns the run is suspended at an await (no
\* outcome ends it with an exception), with the analyses of the files before i.
C1_OneAnalysisPerFile ==
    /\ pc \in {"start", "getFileDiff", "fetch", "json", "returned"}
    /\ \A k \in 1..Len(fileAnalyses) : fileAnalyses[k].file = files[k]
    /\ InFlight => pending # {} /\ result = <<>> /\ Len(fileAnalyses) = i - 1
    /\ pc = "returned" =>
        /\ Len(result) = 1
        /\ Len(result[1].fileAnalyses) = Len(files)
        /\ \A k \in 1..Len(files) : result[1].fileAnalyses[k].file = files[k]

\* two files, the diff fetch of the first failed and the backend call of the second
\* failed, and the run returned
C1_Witness ==
    /\ pc = "returned"
    /\ Len(files) = 2
    /\ Count("getFileDiff:error", 1) = 1
    /\ Count("callOllama:error", 2) = 1
    /\ Len(result[1].fileAnalyses) = 2

\* the action word the fallback summary starts with, as the claim gives it
C2_ActionWord(status) ==
    CASE status = <<"a","d","d","e","d">> -> <<"A","d","d">>  \* 'added' 'Add'
      [] status = <<"d","e","l","e","t","e","d">> -> <<"R","e","m","o","v","e">>  \* 'deleted' 'Remove'
      [] status = <<"r","e","n","a","m","e","d">> -> <<"R","e","n","a","m","e">>  \* 'renamed' 'Rename'
      [] OTHER -> <<"U","p","d","a","t","e">>  \* 'Update'

\* C2: a step in which the backend call of file i fails leaves, as that file's
\* analysis, the summary "<Add|Remove|Rename|Update> <category> file <path>" and the
\* impact estimated from the file's diff; the failure is not propagated: the run is
\* then suspended at the diff fetch of a later file, or has returned with every file.
C2_BackendFailureFallsBack ==
    [][StepBeginsWith("callOllama:error") =>
        /\ Len(fileAnalyses') >= i
        /\ fileAnalyses'[i].file = files[i]
        /\ fileAnalyses'[i].summary =
               C2_ActionWord(files[i].status) \o <<" ">> \o categorizeFile(files[i].path).type  \* ' '
                   \o <<" ","f","i","l","e"," ">> \o files[i].path  \* ' file '
        /\ fileAnalyses'[i].impact = estimateImpactFromDiff(diff)
        /\ \/ pc' = "getFileDiff" /\ i' > i
           \/ pc' = "returned" /\ Len(result'[1].fileAnalyses) = Len(files)]_vars

\* the backend call for the deleted README.md failed on a diff of 101 changed lines;
\* the file after it was analysed and the run returned
C2_Witness ==
    /\ pc = "returned"
    /\ Len(files) = 2
    /\ Count("callOllama:error", 1) = 1
    /\ fileAnalyses[1].summary = <<"R","e","m","o","v","e"," ","d","o","c","u","m","e","n","t","a","t","i","o","n"," ","f","i","l","e"," ","R","E","A","D","M","E",".","m","d">>  \* 'Remove documentation file README.md'
    /\ fileAnalyses[1].impact = <<"m","a","j","o","r">>  \* 'major'
    /\ Count("getFileDiff", 2) = 1

\* C3 as stated: once the diff fetch of a file has failed the run is aborted: no later
\* file is processed, nothing is recorded for the file and no AnalysisResult is returned.
C3_RetrievalErrorAborts ==
    \A k \in 1..Len(files) :
        Count("getFileDiff:error", k) > 0 =>
            /\ result = <<>>
            /\ Len(fileAnalyses) < k
            /\ \A n \in 1..Len(trace) : trace[n].file <= k

\* C3 (amended): a failed diff fetch is caught by analyzeChanges: the file gets the
\* analysis "<status> <category> file" with impact minor, no backend call is made for
\* it, and the run goes on to the later files and returns an AnalysisResult.
C3_RetrievalErrorIsCaught ==
    \A k \in 1..Len(files) :
        Count("getFileDiff:error", k) > 0 =>
            /\ Len(fileAnalyses) >= k
            /\ fileAnalyses[k] =
                   [file |-> files[k], category |-> categorizeFile(files[k].path),
                    summary |-> files[k].status \o <<" ">>  \* ' '
                                    \o categorizeFile(files[k].path).type \o <<" ","f","i","l","e">>,  \* ' file'
                    impact |-> <<"m","i","n","o","r">>]  \* 'minor'
            /\ Count("callOllama", k) = 0
            /\ \/ InFlight /\ i > k
               \/ pc = "returned" /\ Len(result[1].fileAnalyses) = Len(files)

\* the diff fetch of the first of two files failed, the second file went through the
\* backend, and the run returned a result
C3_Witness ==
    /\ pc = "returned"
    /\ Len(files) = 2
    /\ Count("getFileDiff:error", 1) = 1
    /\ Count("callOllama:ok", 2) = 1
    /\ result # <<>>

\* C4: at most one diff fetch or backend request is in flight, it belongs to file i,
\* every file before i has its analysis in the output list by then, and the calls
\* are made in the order of the files.
C4_OneCallInFlight ==
    /\ Cardinality(pending) <= 1
    /\ InFlight => pending = {<<pc, i>>} /\ Len(fileAnalyses) = i - 1
    /\ ~InFlight => pending = {}
    /\ \A m, n \in 1..Len(trace) : m < n => trace[m].file <= trace[n].file

\* the backend request of the second file is in flight after the first file went
\* through its own diff fetch and backend call
C4_Witness ==
    /\ pc = "fetch"
    /\ i = 2
    /\ Count("callOllama:ok", 1) = 1
    /\ Len(fileAnalyses) = 1
    /\ pending = {<<"fetch", 2>>}

\* C5 as stated: every backend invocation ends, with a result or an error, even if
\* the backend never responds.
C5_BackendCallEnds == (pc \in {"fetch", "json"}) ~> (pc \notin {"fetch", "json"})

IsProgress(e) == e.ev = "onProgress"

\* C6: with a callback supplied, the calls of onProgress are exactly one per file
\* entered, in input order, with (position, number of files, path), also for the
\* files that skip analysis; and each precedes the diff fetch and the backend call
\* of its file.
C6_ProgressOncePerFile ==
    onProgress =>
        /\ SelectSeq(trace, IsProgress) =
               [k \in 1..Entered |-> [ev |-> "onProgress", file |-> k,
                                      args |-> <<k, Len(files), files[k].path>>]]
        /\ \A n \in 1..Len(trace) :
               trace[n].ev \in {"getFileDiff", "callOllama"} =>
                   \E m \in 1..(n - 1) : IsProgress(trace[m]) /\ trace[m].file = trace[n].file

\* a run with the callback returned after a lockfile (skipped) and a file that went
\* through the backend: each was reported once
C6_Witness ==
    /\ onProgress
    /\ pc = "returned"
    /\ Len(files) = 2
    /\ ~categorizeFile(files[1].path).needsAnalysis
    /\ Count("callOllama", 2) = 1
    /\ Count("onProgress", 1) = 1 /\ Count("onProgress", 2) = 1

\* C7, on the states: no file has more than one backend call, also after a failure; a
\* file whose category needs no analysis has neither a diff fetch nor a backend call;
\* a backend call follows a resolved diff fetch of the same file; the diff of a call
\* in flight is not blank.
C7_CallsInState ==
    /\ \A k \in 1..Len(files) :
        /\ Count("callOllama", k) <= 1
        /\ Count("getFileDiff", k) <= 1
        /\ Count("callOllama:ok", k) + Count("callOllama:error", k) <= Count("callOllama", k)
        /\ Count("callOllama", k) <= Count("getFileDiff:ok", k)
        /\ ~categorizeFile(files[k].path).needsAnalysis =>
               Count("getFileDiff", k) = 0 /\ Count("callOllama", k) = 0
        /\ (categorizeFile(files[k].path).needsAnalysis /\ k <= Entered) =>
               Count("getFileDiff", k) = 1
    /\ pc \in {"fetch", "json"} => Len(Trim(diff)) > 0 /\ Count("callOllama", i) = 1

\* C7: a backend call is made for a file if and only if its category needs analysis
\* and its fetched staged diff is not blank, and then exactly once; a tooling file
\* triggers neither a diff fetch nor a backend call.
C7_BackendCallIffNeeded ==
    /\ []C7_CallsInState
    /\ [][StepBeginsWith("getFileDiff:ok") =>
              (Count("callOllama", i)' = 1 <=> Len(Trim(diff')) > 0)]_vars

\* the scenario of the specification: src/a.ts (added) had one backend call, and
\* pnpm-lock.yaml had no diff fetch, no backend call and impact trivial
C7_Witness ==
    /\ pc = "returned"
    /\ Len(files) = 2
    /\ files[1] = [path |-> <<"s","r","c","/","a",".","t","s">>, status |-> <<"a","d","d","e","d">>]  \* 'src/a.ts' 'added'
    /\ files[2] = [path |-> <<"p","n","p","m","-","l","o","c","k",".","y","a","m","l">>, status |-> <<"m","o","d","i","f","i","e","d">>]  \* 'pnpm-lock.yaml' 'modified'
    /\ Count("callOllama", 1) = 1
    /\ Count("getFileDiff", 2) = 0 /\ Count("callOllama", 2) = 0
    /\ fileAnalyses[2].impact = <<"t","r","i","v","i","a","l">>  \* 'trivial'

---------------------------------------------------------------------------
(* Properties of categorizeFile (specification SpecCategorize).            *)

\* the rule of categorizeFile, in the order tooling, configuration, documentation,
\* test, that the path matches first; code when it matches none
C8_FirstRule(filePath) ==
    LET fileName  == fileNameOf(filePath)
        extension == extensionOf(fileName)
        rules     == << <<isToolingFile(fileName, filePath), <<"t","o","o","l","i","n","g">>>>,  \* 'tooling'
                        <<isConfigurationFile(fileName, extension), <<"c","o","n","f","i","g","u","r","a","t","i","o","n">>>>,  \* 'configuration'
                        <<isDocumentationFile(extension), <<"d","o","c","u","m","e","n","t","a","t","i","o","n">>>>,  \* 'documentation'
                        <<isTestFile(fileName, filePath), <<"t","e","s","t">>>> >>  \* 'test'
        hits      == {k \in 1..4 : rules[k][1]}
    IN  IF hits = {} THEN <<"c","o","d","e">>  \* 'code'
        ELSE rules[CHOOSE k \in hits : \A m \in hits : k <= m][2]

\* C8: categorizeFile returns the category of the first rule the path matches, in
\* the order tooling, configuration, documentation, test, and code when none does;
\* config.test.json is configuration, package-lock.json is tooling, and the .md file
\* test-plan.md is documentation.
C8_FirstMatchWins ==
    catResult # <<>> =>
        /\ catResult[1].type = C8_FirstRule(catPath)
        /\ Pop(Split(catPath, "/")) = <<"p","a","c","k","a","g","e","-","l","o","c","k",".","j","s","o","n">> => catResult[1].type = <<"t","o","o","l","i","n","g">>  \* 'package-lock.json' 'tooling'
        /\ catPath \in {<<"c","o","n","f","i","g",".","t","e","s","t",".","j","s","o","n">>, <<"s","r","c","/","c","o","n","f","i","g",".","t","e","s","t",".","j","s","o","n">>, <<"t","e","s","t","/","c","o","n","f","i","g",".","t","e","s","t",".","j","s","o","n">>}  \* 'config.test.json' 'src/config.test.json' 'test/config.test.json'
               => catResult[1].type = <<"c","o","n","f","i","g","u","r","a","t","i","o","n">>  \* 'configuration'
        /\ catPath \in {<<"t","e","s","t","-","p","l","a","n",".","m","d">>, <<"s","r","c","/","t","e","s","t","-","p","l","a","n",".","m","d">>, <<"s","r","c","/","t","e","s","t","/","t","e","s","t","-","p","l","a","n",".","m","d">>}  \* 'test-plan.md' 'src/test-plan.md' 'src/test/test-plan.md'
               => catResult[1].type = <<"d","o","c","u","m","e","n","t","a","t","i","o","n">>  \* 'documentation'
        /\ catPath \in {<<"s","r","c","/","a",".","t","s">>, <<"i","n","d","e","x",".","j","s">>, <<"L","I","C","E","N","S","E">>} => catResult[1].type = <<"c","o","d","e">>  \* 'src/a.ts' 'index.js' 'LICENSE' 'code'

\* config.test.json, which matches the configuration rule and the test rule
C8_Witness ==
    /\ catPath = <<"s","r","c","/","t","e","s","t","/","c","o","n","f","i","g",".","t","e","s","t",".","j","s","o","n">>  \* 'src/test/config.test.json'
    /\ catResult # <<>>
    /\ isTestFile(fileNameOf(catPath), catPath)
    /\ catResult[1].type = <<"c","o","n","f","i","g","u","r","a","t","i","o","n">>  \* 'configuration'

\* C9: categorizeFile returns one of the five categories, needsAnalysis is false
\* exactly for tooling, a category with needsAnalysis false has a non-empty summary,
\* and a path whose file name is pnpm-lock.yaml, package-lock.json or yarn.lock, in
\* any directory, is tooling with a non-empty summary.
C9_ToolingIffNoAnalysis ==
    catResult # <<>> =>
        /\ Len(catResult) = 1
        /\ catResult[1].type \in
               {<<"t","o","o","l","i","n","g">>, <<"c","o","n","f","i","g","u","r","a","t","i","o","n">>, <<"d","o","c","u","m","e","n","t","a","t","i","o","n">>, <<"t","e","s","t">>, <<"c","o","d","e">>}  \* 'tooling' 'configuration' 'documentation' 'test' 'code'
        /\ catResult[1].needsAnalysis = FALSE <=> catResult[1].type = <<"t","o","o","l","i","n","g">>  \* 'tooling'
        /\ catResult[1].needsAnalysis = FALSE =>
               "summary" \in DOMAIN catResult[1] /\ Len(catResult[1].summary) > 0
        /\ Pop(Split(catPath, "/")) \in {<<"p","n","p","m","-","l","o","c","k",".","y","a","m","l">>, <<"p","a","c","k","a","g","e","-","l","o","c","k",".","j","s","o","n">>, <<"y","a","r","n",".","l","o","c","k">>}  \* 'pnpm-lock.yaml' 'package-lock.json' 'yarn.lock'
               => /\ catResult[1].type = <<"t","o","o","l","i","n","g">>  \* 'tooling'
                  /\ catResult[1].needsAnalysis = FALSE
                  /\ Len(catResult[1].summary) > 0

\* a lockfile in a directory
C9_Witness ==
    /\ catPath = <<"l","i","b","/","t","e","s","t","s","/","p","a","c","k","a","g","e","-","l","o","c","k",".","j","s","o","n">>  \* 'lib/tests/package-lock.json'
    /\ catResult = <<[type |-> <<"t","o","o","l","i","n","g">>, needsAnalysis |-> FALSE,  \* 'tooling'
                      summary |-> <<"U","p","d","a","t","e"," ","p","a","c","k","a","g","e"," ","d","e","p","e","n","d","e","n","c","i","e","s">>]>>  \* 'Update package dependencies'

---------------------------------------------------------------------------
(* Properties of the aggregator (specification SpecAggregate).             *)

\* the number of analyses of category code
C10_CodeCount == Cardinality({k \in 1..Len(analyses) : analyses[k].category.type = <<"c","o","d","e">>})  \* 'code'

C10_HasMajor == \E k \in 1..Len(analyses) : analyses[k].impact = <<"m","a","j","o","r">>  \* 'major'

\* C10 as stated: with a major impact present the scope is "large feature
\* implementation" for more than 3 code analyses, "feature implementation" for 1 to
\* 3, and "significant change" for none.
C10_OneToThreeIsFeature ==
    (aggregate # <<>> /\ C10_HasMajor) =>
        aggregate[1].overallScope =
            IF C10_CodeCount > 3 THEN <<"l","a","r","g","e"," ","f","e","a","t","u","r","e"," ","i","m","p","l","e","m","e","n","t","a","t","i","o","n">>  \* 'large feature implementation'
            ELSE IF C10_CodeCount >= 1 THEN <<"f","e","a","t","u","r","e"," ","i","m","p","l","e","m","e","n","t","a","t","i","o","n">>  \* 'feature implementation'
            ELSE <<"s","i","g","n","i","f","i","c","a","n","t"," ","c","h","a","n","g","e">>  \* 'significant change'

\* C10 (amended): with a major impact present the scope is "large feature
\* implementation" for more than 3 code analyses, "feature implementation" for 2 or
\* 3, and "significant change" for one or none.
C10_TwoOrThreeIsFeature ==
    (aggregate # <<>> /\ C10_HasMajor) =>
        aggregate[1].overallScope =
            IF C10_CodeCount > 3 THEN <<"l","a","r","g","e"," ","f","e","a","t","u","r","e"," ","i","m","p","l","e","m","e","n","t","a","t","i","o","n">>  \* 'large feature implementation'
            ELSE IF C10_CodeCount >= 2 THEN <<"f","e","a","t","u","r","e"," ","i","m","p","l","e","m","e","n","t","a","t","i","o","n">>  \* 'feature implementation'
            ELSE <<"s","i","g","n","i","f","i","c","a","n","t"," ","c","h","a","n","g","e">>  \* 'significant change'

\* a major impact with exactly one code analysis
C10_Witness ==
    /\ aggregate # <<>>
    /\ C10_HasMajor
    /\ C10_CodeCount = 1
    /\ aggregate[1].overallScope = <<"s","i","g","n","i","f","i","c","a","n","t"," ","c","h","a","n","g","e">>  \* 'significant change'


----------------------------------------------------------------------------
(* Claims about the aggregation, the synthesis and the commit command.     *)

C11_Has(type) == \E k \in 1..Len(analyses) : analyses[k].category.type = type

C11_HasAddedCode ==
    \E k \in 1..Len(analyses) :
        analyses[k].file.status = <<"a","d","d","e","d">> /\ analyses[k].category.type = <<"c","o","d","e">>  \* 'added' 'code'

\* C11: suggestedCommitType follows the first-match table: feat if some analysis is
\* an added code file, else feat if some impact is major, else fix if there is a
\* code analysis, else test if there is a test analysis, else docs if there is a
\* documentation analysis, else chore (so chore for the empty list).
C11_CommitTypeTable ==
    aggregate # <<>> =>
        aggregate[1].suggestedCommitType =
            IF C11_HasAddedCode THEN <<"f","e","a","t">>  \* 'feat'
            ELSE IF C10_HasMajor THEN <<"f","e","a","t">>  \* 'feat'
            ELSE IF C11_Has(<<"c","o","d","e">>) THEN <<"f","i","x">>  \* 'code' 'fix'
            ELSE IF C11_Has(<<"t","e","s","t">>) THEN <<"t","e","s","t">>  \* 'test' 'test'
            ELSE IF C11_Has(<<"d","o","c","u","m","e","n","t","a","t","i","o","n">>) THEN <<"d","o","c","s">>  \* 'documentation' 'docs'
            ELSE <<"c","h","o","r","e">>  \* 'chore'

\* an added code file among analyses of other categories, none of them major
C11_Witness ==
    /\ aggregate # <<>>
    /\ C11_HasAddedCode
    /\ ~C10_HasMajor
    /\ C11_Has(<<"t","e","s","t">>)  \* 'test'
    /\ aggregate[1].suggestedCommitType = <<"f","e","a","t">>  \* 'feat'

\* the message a synthesis call returned, if it returned one
SynReturned == synResult # <<>> /\ synResult[1][1] = "ok"

SynThrown == synResult # <<>> /\ synResult[1][1] = "error"

\* a line that holds a fence marker (with an optional language tag) and nothing else
IsMarkerLine(line) ==
    LET t == Trim(line)
    IN  FenceAt(t, 1) /\ SkipLower(t, 4) = Len(t) + 1

C12_Clean(message) ==
    /\ ~StartsWith(message, <<Backquote,Backquote,Backquote>>)  \* '```'
    /\ ~EndsWith(message, <<Backquote,Backquote,Backquote>>)  \* '```'
    /\ \A b \in LineStarts(message) : ~IsMarkerLine(LineAt(message, b))

\* C12: the message generateCommitMessageFromAnalysis returns, with either backend,
\* holds no line that is only a fence marker and neither starts nor ends with a
\* fence marker.
C12_SynthesisIsSanitized ==
    (synOp = "generateCommitMessageFromAnalysis" /\ SynReturned) => C12_Clean(synResult[1][2])

RECURSIVE C13_Join(_)
\* the lines joined by line feeds
C13_Join(lines) ==
    IF Len(lines) = 0 THEN <<>>
    ELSE IF Len(lines) = 1 THEN lines[1]
    ELSE lines[1] \o <<"\n">> \o C13_Join(Tail(lines))

C13_IsOtherLine(line) == ~IsMarkerLine(line)

\* the message with the marker lines taken out and the rest trimmed
C13_Expected(message) ==
    Trim(C13_Join(SelectSeq(Split(message, "\n"), C13_IsOtherLine)))

\* C13: sanitizeMessage removes the lines that are only a fence marker and trims;
\* every other line, one that begins or ends with backquotes while carrying other
\* text included, is kept as it is.
C13_OnlyMarkerLinesRemoved ==
    (backend = "claude" /\ SynReturned) =>
        synResult[1][2] = C13_Expected(Trim(synRaw[1].stdout))

C14_Blank(s) == \A k \in 1..Len(s) : IsSpace(s[k])

\* the backend answered with nothing or with something that is not an answer
C14_EmptyOrMalformed ==
    /\ synRaw # <<>>
    /\ \/ synRaw[1].kind = "close" /\ synRaw[1].code = 0 /\ C14_Blank(synRaw[1].stdout)
       \/ synRaw[1].kind = "jsonRejected"
       \/ /\ synRaw[1].kind = "data"
          /\ "error" \notin DOMAIN synRaw[1].data
          /\ ("response" \in DOMAIN synRaw[1].data => C14_Blank(synRaw[1].data.response))

\* C14: an empty or malformed answer during the final synthesis makes the call throw
\* an error whose message is the generic "Failed to generate commit message", with
\* either backend.
C14_MalformedIsGenericError ==
    (synOp = "generateCommitMessageFromAnalysis" /\ C14_EmptyOrMalformed) =>
        SynThrown /\ StartsWith(synResult[1][2], <<"F","a","i","l","e","d"," ","t","o"," ","g","e","n","e","r","a","t","e"," ","c","o","m","m","i","t"," ","m","e","s","s","a","g","e">>)  \* 'Failed to generate commit message'

\* C15: generateCommitMessage called with an empty or blank diff throws "No diff
\* content provided" and starts no backend invocation.
C15_NoDiffFailsFast ==
    (synOp = "generateCommitMessage" /\ C14_Blank(synDiff)) =>
        /\ synCalls = 0
        /\ synPc \in {"start", "returned"}
        /\ synPc = "returned" => synResult = <<(<<"error", <<"N","o"," ","d","i","f","f"," ","c","o","n","t","e","n","t"," ","p","r","o","v","i","d","e","d">>>>)>>  \* 'No diff content provided'

\* generateCommitMessage has thrown for a diff of white space
C15_Witness ==
    /\ synOp = "generateCommitMessage"
    /\ Len(synDiff) > 0 /\ C14_Blank(synDiff)
    /\ synPc = "returned"
    /\ SynThrown

\* the positions of cmdTrace that hold the event ev
At(ev) == {k \in 1..Len(cmdTrace) : cmdTrace[k].ev = ev}

\* the positions of cmdTrace that hold the event ev with the argument arg
AtWith(ev, arg) == {k \in At(ev) : cmdTrace[k].arg = arg}

C16_CheckFailed ==
    AtWith("isGitRepository:resolved", FALSE) \cup AtWith("checkOllamaAvailability:resolved", FALSE) # {}

\* C16: runCommit stages the changes only after the repository check and the
\* backend check have both succeeded; when either fails the process exits with code
\* 1 and nothing is staged, analysed, committed or pushed.
C16_StageAfterBothChecks ==
    /\ \A k \in At("stageAllChanges") :
        /\ \E j \in AtWith("isGitRepository:resolved", TRUE) : j < k
        /\ \E j \in AtWith("checkOllamaAvailability:resolved", TRUE) : j < k
    /\ C16_CheckFailed =>
        /\ cmdPc = "exited" /\ exitCode = <<1>>
        /\ At("stageAllChanges") \cup At("analyzeChanges") \cup At("commit") \cup At("push")
           \cup At("generateCommitMessageFromAnalysis") = {}

\* the changes are being staged
C16_Witness ==
    /\ cmdPc = "stageAllChanges"
    /\ At("stageAllChanges") # {}
    /\ ollamaCheck = <<[available |-> TRUE]>>

C17_Cancelled == AtWith("answer", <<"c">>) \cup AtWith("answer", <<"c","a","n","c","e","l">>)  \* 'c' 'cancel'

\* C17: git commit is invoked at most once, right after the user chose accept or
\* ended an edit; after cancel the process exits with code 0 and neither commit nor
\* push is invoked; push is invoked only after commit succeeded and the user
\* answered y; a failed commit exits with code 1 and push is not offered.
C17_CommitAndPushOrder ==
    /\ Cardinality(At("commit")) <= 1
    /\ \A k \in At("commit") :
        /\ k > 1
        /\ \/ cmdTrace[k - 1] \in {CmdEvent("answer", <<"a">>), CmdEvent("answer", <<"a","c","c","e","p","t">>)}  \* 'a' 'accept'
           \/ cmdTrace[k - 1].ev = "line" /\ Trim(cmdTrace[k - 1].arg) = <<".">>  \* '.'
    /\ C17_Cancelled # {} =>
        /\ cmdPc = "exited" /\ exitCode = <<0>>
        /\ At("commit") \cup At("push") = {}
    /\ \A k \in At("push") :
        /\ \E j \in AtWith("commit:settled", TRUE) : j < k
        /\ cmdTrace[k - 1] = CmdEvent("pushAnswer", <<"y">>)  \* 'y'
    /\ AtWith("commit:settled", FALSE) # {} =>
        /\ cmdPc = "exited" /\ exitCode = <<1>>
        /\ At("pushQuestion") \cup At("push") = {}

\* the message was edited, committed and pushed
C17_Witness ==
    /\ At("line") # {}
    /\ At("commit") # {}
    /\ At("push") # {}
    /\ cmdPc = "returned"

\* a model of this name (the part before the colon) is listed
C18_Installed(models, name) == \E k \in 1..Len(models) : Split(models[k], ":")[1] = name

\* C18: checkOllamaAvailability returns available = true only when llama3 and
\* llama3.2 are both among the listed models; when one is missing it returns
\* available = false with an error that names the missing model.
C18_BothModelsRequired ==
    (ollamaCheck # <<>> /\ tags[1].kind = "data" /\ "models" \in DOMAIN tags[1]) =>
        LET models == tags[1].models
        IN  /\ ~C18_Installed(models, <<"l","l","a","m","a","3">>) =>  \* 'llama3'
                /\ ~ollamaCheck[1].available
                /\ Includes(ollamaCheck[1].error, <<"m","o","d","e","l"," ","l","l","a","m","a","3",":","l","a","t","e","s","t"," ","n","o","t"," ","f","o","u","n","d">>)  \* 'model llama3:latest not found'
            /\ (C18_Installed(models, <<"l","l","a","m","a","3">>) /\ ~C18_Installed(models, <<"l","l","a","m","a","3",".","2">>)) =>  \* 'llama3' 'llama3.2'
                /\ ~ollamaCheck[1].available
                /\ Includes(ollamaCheck[1].error, <<"m","o","d","e","l"," ","l","l","a","m","a","3",".","2",":","l","a","t","e","s","t"," ","n","o","t"," ","f","o","u","n","d">>)  \* 'model llama3.2:latest not found'

\* the pushed analysis of the k-th file came from a diff that was fetched and was
\* blank: no backend call followed the fetch
C19_BlankDiff(k) ==
    /\ Count("getFileDiff:ok", k) = 1
    /\ Count("callOllama", k) = 0

\* C19: a file whose category needs no analysis gets the summary of its category and
\* impact trivial; a file that needs analysis and whose staged diff is empty or blank
\* gets the summary "<status> <path>" and impact trivial.
C19_FixedResultWithoutBackend ==
    \A k \in 1..Len(fileAnalyses) :
        /\ ~categorizeFile(files[k].path).needsAnalysis =>
            /\ fileAnalyses[k].summary = categorizeFile(files[k].path).summary
            /\ fileAnalyses[k].impact = <<"t","r","i","v","i","a","l">>  \* 'trivial'
        /\ (categorizeFile(files[k].path).needsAnalysis /\ C19_BlankDiff(k)) =>
            /\ fileAnalyses[k].summary = files[k].status \o <<" ">> \o files[k].path  \* ' '
            /\ fileAnalyses[k].impact = <<"t","r","i","v","i","a","l">>  \* 'trivial'

\* a lockfile and a deleted README.md whose diff was blank, both analysed
C19_Witness ==
    /\ pc = "returned"
    /\ Len(files) = 2
    /\ files[1].path = <<"p","n","p","m","-","l","o","c","k",".","y","a","m","l">>  \* 'pnpm-lock.yaml'
    /\ files[2] = [path |-> <<"R","E","A","D","M","E",".","m","d">>, status |-> <<"d","e","l","e","t","e","d">>]  \* 'README.md' 'deleted'
    /\ C19_BlankDiff(2)
    /\ fileAnalyses[1].summary = <<"U","p","d","a","t","e"," ","p","a","c","k","a","g","e"," ","d","e","p","e","n","d","e","n","c","i","e","s">>  \* 'Update package dependencies'
    /\ fileAnalyses[2].summary = <<"d","e","l","e","t","e","d"," ","R","E","A","D","M","E",".","m","d">>  \* 'deleted README.md'

\* the directories of the path: its segments but the last
C20_Directories(filePath) ==
    LET segments == Split(filePath, "/")
    IN  {segments[k] : k \in 1..(Len(segments) - 1)}

\* C20: a path that the tooling, configuration and documentation rules do not match
\* is a test file whenever its file name contains test or spec, or one of its
\* directories, the first included, is named test, tests or __tests__.
C20_TestMarkers ==
    LET fileName  == fileNameOf(catPath)
        extension == extensionOf(fileName)
    IN  (/\ catResult # <<>>
         /\ ~isToolingFile(fileName, catPath)
         /\ ~isConfigurationFile(fileName, extension)
         /\ ~isDocumentationFile(extension)
         /\ \/ Includes(fileName, <<"t","e","s","t">>)  \* 'test'
            \/ Includes(fileName, <<"s","p","e","c">>)  \* 'spec'
            \/ C20_Directories(catPath) \cap {<<"t","e","s","t">>, <<"t","e","s","t","s">>, <<"_","_","t","e","s","t","s","_","_">>} # {})  \* 'test' 'tests' '__tests__'
        => catResult[1].type = <<"t","e","s","t">>  \* 'test'
----------------------------------------------------------------------------
(* Claims on the response parser, the impact estimate, the context block,  *)
(* the prompt, the error classes, the commit loop and callClaude.          *)

\* the function fn has been applied to its argument
Applied(fn) == fnName = fn /\ fnOut # <<>>

\* the positions of the lines of r that start with the prefix
C21_PrefixLines(r, prefix) ==
    {k \in 1..Len(Split(r, "\n")) : StartsWith(Split(r, "\n")[k], prefix)}

\* the text after the prefix on the one line of r that starts with it
C21_Value(r, prefix) ==
    LET line == Split(r, "\n")[CHOOSE k \in C21_PrefixLines(r, prefix) : TRUE]
    IN  Trim(SubSeq(line, Len(prefix) + 1, Len(line)))

C21_ExpectedImpact(r) ==
    IF C21_PrefixLines(r, <<"I","M","P","A","C","T",":">>) = {} THEN <<"m","i","n","o","r">>  \* 'IMPACT:' 'minor'
    ELSE LET v == ToLowerCase(C21_Value(r, <<"I","M","P","A","C","T",":">>))  \* 'IMPACT:'
         IN  IF v \in {<<"m","a","j","o","r">>, <<"m","i","n","o","r">>, <<"t","r","i","v","i","a","l">>} THEN v ELSE <<"m","i","n","o","r">>  \* 'major' 'minor' 'trivial' 'minor'

C21_Action(status) ==
    IF status = <<"a","d","d","e","d">> THEN <<"A","d","d">>  \* 'added' 'Add'
    ELSE IF status = <<"d","e","l","e","t","e","d">> THEN <<"R","e","m","o","v","e">>  \* 'deleted' 'Remove'
    ELSE IF status = <<"r","e","n","a","m","e","d">> THEN <<"R","e","n","a","m","e">>  \* 'renamed' 'Rename'
    ELSE <<"U","p","d","a","t","e">>  \* 'Update'

C21_ExpectedSummary(file, r) ==
    IF C21_PrefixLines(r, <<"S","U","M","M","A","R","Y",":">>) # {} /\ C21_Value(r, <<"S","U","M","M","A","R","Y",":">>) # <<>>  \* 'SUMMARY:' 'SUMMARY:'
    THEN C21_Value(r, <<"S","U","M","M","A","R","Y",":">>)  \* 'SUMMARY:'
    ELSE C21_Action(file.status) \o <<" ">> \o categoryOf[file].type \o <<" ","f","i","l","e"," ">> \o file.path  \* ' ' ' file '

\* C21: for a response with one SUMMARY: line and one IMPACT: line at most, the
\* parsed impact is the lower-cased value of the IMPACT: line when that is
\* major, minor or trivial and minor otherwise (line missing included); the
\* parsed summary is the text of the SUMMARY: line, and the fallback summary
\* '<Add|Remove|Rename|Update> <category> file <path>' when there is no such
\* line or it has no text.
C21_ParsedFields ==
    Applied("parseAnalysisResponse") =>
        /\ Cardinality(C21_PrefixLines(fnArg.response, <<"S","U","M","M","A","R","Y",":">>)) <= 1  \* 'SUMMARY:'
        /\ Cardinality(C21_PrefixLines(fnArg.response, <<"I","M","P","A","C","T",":">>)) <= 1  \* 'IMPACT:'
        /\ fnOut[1].impact = C21_ExpectedImpact(fnArg.response)
        /\ fnOut[1].summary = C21_ExpectedSummary(fnArg.file, fnArg.response)

\* an IMPACT: line with another value and a SUMMARY: line without text, parsed
\* for a deleted file: impact minor and the fallback summary
C21_Witness ==
    /\ Applied("parseAnalysisResponse")
    /\ fnArg.response = <<"S","U","M","M","A","R","Y",":"," "," "," ","\n","I","M","P","A","C","T",":"," ","h","u","g","e">>  \* 'SUMMARY:   \nIMPACT: huge'
    /\ fnArg.file.status = <<"d","e","l","e","t","e","d">>  \* 'deleted'
    /\ fnOut[1].impact = <<"m","i","n","o","r">>  \* 'minor'
    /\ fnOut[1].summary = <<"R","e","m","o","v","e"," ","d","o","c","u","m","e","n","t","a","t","i","o","n"," ","f","i","l","e"," ","R","E","A","D","M","E",".","m","d">>  \* 'Remove documentation file README.md'

\* a '--- a/...' or '+++ b/...' file header line of a diff
C22_IsHeader(line) == StartsWith(line, <<"-","-","-"," ">>) \/ StartsWith(line, <<"+","+","+"," ">>)  \* '--- ' '+++ '

\* the number of added and removed content lines of the diff d
C22_ContentLines(d) ==
    Cardinality({b \in LineStarts(d) :
        /\ StartsWith(LineAt(d, b), <<"+">>) \/ StartsWith(LineAt(d, b), <<"-">>)  \* '+' '-'
        /\ ~C22_IsHeader(LineAt(d, b))})

\* C22: the fallback impact estimate is major when the diff has more than 100
\* added and removed content lines, minor when it has 11 to 100 and trivial
\* when it has at most 10; file header lines and context lines do not count.
C22_ImpactByContentLines ==
    Applied("estimateImpactFromDiff") =>
        fnOut[1] = IF C22_ContentLines(fnArg) > 100 THEN <<"m","a","j","o","r">>  \* 'major'
                   ELSE IF C22_ContentLines(fnArg) > 10 THEN <<"m","i","n","o","r">>  \* 'minor'
                   ELSE <<"t","r","i","v","i","a","l">>  \* 'trivial'

\* C23: when no analysis has impact major, the overall scope is the first match
\* of: implementation with tests (code and test analyses), code changes (code),
\* test updates (test), documentation updates (documentation), configuration
\* changes (configuration), tooling updates (tooling), misc changes (otherwise,
\* the empty list included).
C23_ScopeTableWithoutMajor ==
    (aggregate # <<>> /\ ~C10_HasMajor) =>
        aggregate[1].overallScope =
            IF C11_Has(<<"c","o","d","e">>) /\ C11_Has(<<"t","e","s","t">>) THEN <<"i","m","p","l","e","m","e","n","t","a","t","i","o","n"," ","w","i","t","h"," ","t","e","s","t","s">>  \* 'code' 'test' 'implementation with tests'
            ELSE IF C11_Has(<<"c","o","d","e">>) THEN <<"c","o","d","e"," ","c","h","a","n","g","e","s">>  \* 'code' 'code changes'
            ELSE IF C11_Has(<<"t","e","s","t">>) THEN <<"t","e","s","t"," ","u","p","d","a","t","e","s">>  \* 'test' 'test updates'
            ELSE IF C11_Has(<<"d","o","c","u","m","e","n","t","a","t","i","o","n">>) THEN <<"d","o","c","u","m","e","n","t","a","t","i","o","n"," ","u","p","d","a","t","e","s">>  \* 'documentation' 'documentation updates'
            ELSE IF C11_Has(<<"c","o","n","f","i","g","u","r","a","t","i","o","n">>) THEN <<"c","o","n","f","i","g","u","r","a","t","i","o","n"," ","c","h","a","n","g","e","s">>  \* 'configuration' 'configuration changes'
            ELSE IF C11_Has(<<"t","o","o","l","i","n","g">>) THEN <<"t","o","o","l","i","n","g"," ","u","p","d","a","t","e","s">>  \* 'tooling' 'tooling updates'
            ELSE <<"m","i","s","c"," ","c","h","a","n","g","e","s">>  \* 'misc changes'

\* test and documentation analyses without code and without a major impact
C23_Witness ==
    /\ aggregate # <<>>
    /\ ~C10_HasMajor
    /\ ~C11_Has(<<"c","o","d","e">>) /\ C11_Has(<<"t","e","s","t">>) /\ C11_Has(<<"d","o","c","u","m","e","n","t","a","t","i","o","n">>)  \* 'code' 'test' 'documentation'
    /\ aggregate[1].overallScope = <<"t","e","s","t"," ","u","p","d","a","t","e","s">>  \* 'test updates'

\* the analyses of the list fas with the given impact, in input order
C24_Group(fas, impact) == SelectSeq(fas, LAMBDA a : a.impact = impact)

\* the lines of the context below its 'File Changes:' line
C24_Body(context) ==
    LET ls == Split(context, "\n")
        h == CHOOSE k \in 1..Len(ls) : ls[k] = <<"F","i","l","e"," ","C","h","a","n","g","e","s",":">>  \* 'File Changes:'
    IN  SubSeq(ls, h + 1, Len(ls))

\* the lines of the body below the heading, up to the next empty line; none when
\* the heading is not there
C24_Section(body, heading) ==
    IF \A k \in 1..Len(body) : body[k] # heading THEN <<>>
    ELSE LET h == CHOOSE k \in 1..Len(body) : body[k] = heading
             ends == {e \in (h + 1)..Len(body) : body[e] = <<>>}
             e == IF ends = {} THEN Len(body) + 1
                  ELSE CHOOSE x \in ends : \A y \in ends : x <= y
         IN  SubSeq(body, h + 1, e - 1)

C24_Bullet(a) == <<"-"," ">> \o a.file.path \o <<" ","(">> \o a.file.status \o <<")",":"," ">> \o a.summary  \* '- ' ' (' '): '

C24_TrivialBullet(a) == <<"-"," ">> \o a.file.path \o <<":"," ">> \o a.summary  \* '- ' ': '

C24_CountLine(n) ==
    <<"T","r","i","v","i","a","l"," ","C","h","a","n","g","e","s",":"," ">> \o NumberText(n) \o <<" ","f","i","l","e","s"," ","(","t","o","o","l","i","n","g",","," ","g","e","n","e","r","a","t","e","d"," ","f","i","l","e","s",","," ","e","t","c",".",")">>  \* 'Trivial Changes: ' ' files (tooling, generated files, etc.)'

C24_Bullets(body) == SelectSeq(body, LAMBDA line : StartsWith(line, <<"-"," ">>))  \* '- '

\* C24: in the context block every major and every minor analysis is its own
\* bullet line under the heading of its group, in input order; the trivial
\* analyses are listed one per line when there are 1 to 5 of them, and are
\* replaced by one line carrying their number when there are more than 5, so
\* that the block never lists more than 5 trivial files.
C24_ContextLists ==
    Applied("buildAnalysisContext") =>
        LET body == C24_Body(fnOut[1])
            major == C24_Group(fnArg, <<"m","a","j","o","r">>)  \* 'major'
            minor == C24_Group(fnArg, <<"m","i","n","o","r">>)  \* 'minor'
            trivial == C24_Group(fnArg, <<"t","r","i","v","i","a","l">>)  \* 'trivial'
            listed == C24_Section(body, <<"T","r","i","v","i","a","l"," ","C","h","a","n","g","e","s",":">>)  \* 'Trivial Changes:'
            counts == {k \in 1..Len(body) : StartsWith(body[k], <<"T","r","i","v","i","a","l"," ","C","h","a","n","g","e","s",":"," ">>)}  \* 'Trivial Changes: '
        IN  /\ C24_Section(body, <<"M","a","j","o","r"," ","C","h","a","n","g","e","s",":">>)  \* 'Major Changes:'
                = [k \in 1..Len(major) |-> C24_Bullet(major[k])]
            /\ C24_Section(body, <<"M","i","n","o","r"," ","C","h","a","n","g","e","s",":">>)  \* 'Minor Changes:'
                = [k \in 1..Len(minor) |-> C24_Bullet(minor[k])]
            /\ Len(trivial) <= 5 =>
                /\ listed = [k \in 1..Len(trivial) |-> C24_TrivialBullet(trivial[k])]
                /\ counts = {}
            /\ Len(trivial) > 5 =>
                /\ listed = <<>>
                /\ Cardinality(counts) = 1
                /\ \A k \in counts : body[k] = C24_CountLine(Len(trivial))
            /\ Len(C24_Bullets(body)) = Len(major) + Len(minor) + Len(listed)
            /\ Len(listed) <= 5

\* seven trivial analyses next to a major one: one count line, one bullet
C24_Witness ==
    /\ Applied("buildAnalysisContext")
    /\ Len(C24_Group(fnArg, <<"t","r","i","v","i","a","l">>)) = 7  \* 'trivial'
    /\ Len(C24_Group(fnArg, <<"m","a","j","o","r">>)) = 1  \* 'major'
    /\ C24_Bullets(C24_Body(fnOut[1])) = <<<<"-"," ","s","r","c","/","b",".","t","s"," ","(","m","o","d","i","f","i","e","d",")",":"," ","F","i","x"," ","t","y","p","o">>>>  \* '- src/b.ts (modified): Fix typo'
    /\ \E k \in 1..Len(C24_Body(fnOut[1])) : C24_Body(fnOut[1])[k] = C24_CountLine(7)

\* analyzeFileChange has built its prompt
C26_PromptBuilt == fnName = "analyzeFileChange" /\ fnOut # <<>>

\* the text of the prompt before and after the embedded diff
C26_Before(file) ==
    <<"A","n","a","l","y","z","e"," ","t","h","i","s"," ">> \o categoryOf[file].type \o <<" ","f","i","l","e"," ","c","h","a","n","g","e",":","\n","\n","F","i","l","e",":"," ">> \o file.path  \* 'Analyze this ' ' file change:\n\nFile: '
        \o <<"\n","S","t","a","t","u","s",":"," ">> \o file.status \o <<"\n">>  \* '\nStatus: ' '\n'
        \o (IF "oldPath" \in DOMAIN file THEN <<"O","l","d"," ","p","a","t","h",":"," ">> \o file.oldPath ELSE <<>>)  \* 'Old path: '
        \o <<"\n","\n","D","i","f","f",":","\n">>  \* '\n\nDiff:\n'

C26_After ==
    <<"\n","\n","R","e","s","p","o","n","d"," ","w","i","t","h"," ","e","x","a","c","t","l","y"," ","t","h","i","s"," ","f","o","r","m","a","t",":","\n">>  \* '\n\nRespond with exactly this format:\n'
        \o <<"S","U","M","M","A","R","Y",":"," ","[","B","r","i","e","f"," ","d","e","s","c","r","i","p","t","i","o","n"," ","o","f"," ","w","h","a","t"," ","c","h","a","n","g","e","d","]","\n">>  \* 'SUMMARY: [Brief description of what changed]\n'
        \o <<"I","M","P","A","C","T",":"," ","[","m","a","j","o","r","/","m","i","n","o","r","/","t","r","i","v","i","a","l"," ","-"," ","b","a","s","e","d"," ","o","n"," ","s","c","o","p","e"," ","a","n","d"," ","i","m","p","o","r","t","a","n","c","e","]","\n","\n">>  \* 'IMPACT: [major/minor/trivial - based on scope and importance]\n\n'
        \o <<"G","u","i","d","e","l","i","n","e","s"," ","f","o","r"," ","I","M","P","A","C","T",":","\n">>  \* 'Guidelines for IMPACT:\n'
        \o <<"-"," ","m","a","j","o","r",":"," ","N","e","w"," ","f","e","a","t","u","r","e","s",","," ","b","r","e","a","k","i","n","g"," ","c","h","a","n","g","e","s",","," ","s","i","g","n","i","f","i","c","a","n","t"," ","r","e","f","a","c","t","o","r","i","n","g","\n">>  \* '- major: New features, breaking changes, significant refactoring\n'
        \o <<"-"," ","m","i","n","o","r",":"," ","B","u","g"," ","f","i","x","e","s",","," ","s","m","a","l","l"," ","e","n","h","a","n","c","e","m","e","n","t","s",","," ","d","o","c","u","m","e","n","t","a","t","i","o","n"," ","u","p","d","a","t","e","s"," "," ","\n">>  \* '- minor: Bug fixes, small enhancements, documentation updates  \n'
        \o <<"-"," ","t","r","i","v","i","a","l",":"," ","F","o","r","m","a","t","t","i","n","g",","," ","c","o","m","m","e","n","t","s",","," ","m","i","n","o","r"," ","c","o","n","f","i","g"," ","t","w","e","a","k","s">>  \* '- trivial: Formatting, comments, minor config tweaks'

C26_Marker == <<"\n",".",".","."," ","(","d","i","f","f"," ","t","r","u","n","c","a","t","e","d",")">>  \* '\n... (diff truncated)'

\* the text the prompt carries between its fixed parts
C26_Embedded ==
    SubSeq(fnOut[1].prompt, Len(C26_Before(fnArg.file)) + 1,
           Len(fnOut[1].prompt) - Len(C26_After))

C26_IsFileAnalysis(a) ==
    /\ DOMAIN a = {"file", "category", "summary", "impact"}
    /\ a.file = fnArg.file
    /\ a.summary # <<>>
    /\ a.impact \in {<<"m","a","j","o","r">>, <<"m","i","n","o","r">>, <<"t","r","i","v","i","a","l">>}  \* 'major' 'minor' 'trivial'

\* C26: the diff text embedded in a per-file analysis prompt is the whole diff
\* when the diff has at most 5000 characters, and its first 5000 characters
\* followed by the truncation marker otherwise; it never exceeds 5000 characters
\* plus the marker, and the call still returns a FileAnalysis of the file.
C26_DiffTruncated ==
    C26_PromptBuilt =>
        /\ fnOut[1].prompt = C26_Before(fnArg.file) \o C26_Embedded \o C26_After
        /\ Len(fnArg.diff) <= 5000 => C26_Embedded = fnArg.diff
        /\ Len(fnArg.diff) > 5000 =>
            C26_Embedded = [k \in 1..5000 |-> fnArg.diff[k]] \o C26_Marker
        /\ Len(C26_Embedded) <= 5000 + Len(C26_Marker)
        /\ Len(fnOut) > 1 => C26_IsFileAnalysis(fnOut[2])

\* a diff of 5100 characters: the prompt carries 5000 of them and the marker,
\* and the backend's answer is parsed into the analysis
C26_Witness ==
    /\ C26_PromptBuilt
    /\ Len(fnArg.diff) = 5100
    /\ Len(C26_Embedded) = 5000 + Len(C26_Marker)
    /\ EndsWith(C26_Embedded, C26_Marker)
    /\ Len(fnOut) = 2
    /\ fnOut[2].summary = <<"A","d","d"," ","p","a","r","s","e","r">>  \* 'Add parser'

\* a synthesis call of the Claude backend failed after the subprocess was spawned
C25_Failed == backend = "claude" /\ SynThrown /\ synRaw # <<>>

\* the subprocess could not be started because the executable is not installed
C25_NotInstalled == synRaw[1].kind = "error" /\ EndsWith(synRaw[1].message, <<"E","N","O","E","N","T">>)  \* 'ENOENT'

\* the subprocess ran and asked for authentication
C25_AuthenticationDemanded ==
    /\ synRaw[1].kind = "close"
    /\ synRaw[1].code # 0
    /\ Includes(synRaw[1].stderr, <<"l","o","g","i","n">>) \/ Includes(synRaw[1].stderr, <<"a","u","t","h","e","n","t","i","c","a","t","i","o","n">>)  \* 'login' 'authentication'

\* C25: a failure of the final synthesis reaches the caller as one classified
\* error: 'Claude Code CLI not found...' when the executable cannot be started
\* because it is not installed (spawn error ENOENT), 'Claude authentication
\* required. Please run: claude login' when the backend demands authentication,
\* and 'Failed to generate commit message: <cause>' for every other failure.
C25_ErrorClasses ==
    C25_Failed =>
        IF C25_NotInstalled
        THEN synResult[1][2] = <<"C","l","a","u","d","e"," ","C","o","d","e"," ","C","L","I"," ","n","o","t"," ","f","o","u","n","d","."," ","P","l","e","a","s","e"," ","e","n","s","u","r","e"," ","C","l","a","u","d","e"," ","C","o","d","e"," ","i","s"," ","i","n","s","t","a","l","l","e","d"," ","a","n","d"," ","a","v","a","i","l","a","b","l","e"," ","i","n"," ","P","A","T","H",".">>  \* 'Claude Code CLI not found. Please ensure Claude Code is installed and available in PATH.'
        ELSE IF C25_AuthenticationDemanded
        THEN synResult[1][2] = <<"C","l","a","u","d","e"," ","a","u","t","h","e","n","t","i","c","a","t","i","o","n"," ","r","e","q","u","i","r","e","d","."," ","P","l","e","a","s","e"," ","r","u","n",":"," ","c","l","a","u","d","e"," ","l","o","g","i","n">>  \* 'Claude authentication required. Please run: claude login'
        ELSE StartsWith(synResult[1][2], <<"F","a","i","l","e","d"," ","t","o"," ","g","e","n","e","r","a","t","e"," ","c","o","m","m","i","t"," ","m","e","s","s","a","g","e",":"," ">>)  \* 'Failed to generate commit message: '

\* C27: runCommit never calls commit with an empty or whitespace-only message,
\* whatever the user answers: an edit that leaves the message empty is rejected
\* and a later accept cannot commit the empty message.
C27_NoEmptyCommit ==
    \A k \in 1..Len(cmdTrace) :
        cmdTrace[k].ev = "commit" => Len(Trim(cmdTrace[k].arg)) > 0

\* C28: overallScope and suggestedCommitType are consistent: with a major impact
\* the type is feat and the scope is large feature implementation, feature
\* implementation or significant change; type fix goes with implementation with
\* tests or code changes, test with test updates, docs with documentation
\* updates, and chore with configuration changes, tooling updates or misc changes.
C28_ScopeTypeConsistent ==
    aggregate # <<>> =>
        LET type == aggregate[1].suggestedCommitType
            scope == aggregate[1].overallScope
        IN  /\ C10_HasMajor =>
                /\ type = <<"f","e","a","t">>  \* 'feat'
                /\ scope \in {<<"l","a","r","g","e"," ","f","e","a","t","u","r","e"," ","i","m","p","l","e","m","e","n","t","a","t","i","o","n">>, <<"f","e","a","t","u","r","e"," ","i","m","p","l","e","m","e","n","t","a","t","i","o","n">>,  \* 'large feature implementation' 'feature implementation'
                              <<"s","i","g","n","i","f","i","c","a","n","t"," ","c","h","a","n","g","e">>}  \* 'significant change'
            /\ type = <<"f","i","x">> => scope \in {<<"i","m","p","l","e","m","e","n","t","a","t","i","o","n"," ","w","i","t","h"," ","t","e","s","t","s">>, <<"c","o","d","e"," ","c","h","a","n","g","e","s">>}  \* 'fix' 'implementation with tests' 'code changes'
            /\ type = <<"t","e","s","t">> => scope = <<"t","e","s","t"," ","u","p","d","a","t","e","s">>  \* 'test' 'test updates'
            /\ type = <<"d","o","c","s">> => scope = <<"d","o","c","u","m","e","n","t","a","t","i","o","n"," ","u","p","d","a","t","e","s">>  \* 'docs' 'documentation updates'
            /\ type = <<"c","h","o","r","e">> => scope \in {<<"c","o","n","f","i","g","u","r","a","t","i","o","n"," ","c","h","a","n","g","e","s">>, <<"t","o","o","l","i","n","g"," ","u","p","d","a","t","e","s">>,  \* 'chore' 'configuration changes' 'tooling updates'
                                             <<"m","i","s","c"," ","c","h","a","n","g","e","s">>}  \* 'misc changes'

\* a major impact next to a modified code file: feat and significant change
C28_Witness ==
    /\ aggregate # <<>>
    /\ C10_HasMajor
    /\ C11_Has(<<"c","o","d","e">>) /\ ~C11_HasAddedCode  \* 'code'
    /\ aggregate[1].suggestedCommitType = <<"f","e","a","t">>  \* 'feat'
    /\ aggregate[1].overallScope = <<"s","i","g","n","i","f","i","c","a","n","t"," ","c","h","a","n","g","e">>  \* 'significant change'

\* C30: sanitizeMessage is idempotent: applied to a message it returned, it
\* returns that message again.
C30_SanitizeIdempotent ==
    (fnName = "sanitizeMessage" /\ Len(fnOut) = 2) => fnOut[2] = fnOut[1]

\* the handler that called resolve or reject first
C29_First == ccCalls[1].by

\* C29: a callClaude invocation settles exactly once and its outcome is that of
\* the first of the close event, the error event and the 30 s timer: when the
\* timer fires first the subprocess is killed and the result is the timeout
\* error, which a later close does not change; when the subprocess closes first
\* the timer is cancelled and neither kills nor rejects afterwards.
C29_SettlesOnceByFirstEvent ==
    /\ [](/\ ccCalls = <<>> => ccPromise = <<>>
          /\ ccCalls # <<>> => ccPromise = <<ccCalls[1].value>>
          /\ (ccCalls # <<>> /\ C29_First = "timer") =>
                /\ ccKills = 1
                /\ ccPromise = <<(<<"error", <<"C","l","a","u","d","e"," ","C","L","I"," ","t","i","m","e","d"," ","o","u","t"," ","a","f","t","e","r"," ","3","0"," ","s","e","c","o","n","d","s">>>>)>>  \* 'Claude CLI timed out after 30 seconds'
          /\ (ccCalls # <<>> /\ C29_First = "close") =>
                /\ ccTimer = "cleared"
                /\ ccKills = 0
                /\ \A k \in 1..Len(ccCalls) : ccCalls[k].by # "timer")
    /\ [][ccPromise # <<>> => ccPromise' = ccPromise]_vars
    /\ (ccChild # "none") ~> (ccPromise # <<>>)

\* the timer fired first and the killed subprocess closed afterwards: the
\* promise keeps the timeout error
C29_Witness ==
    /\ Len(ccCalls) = 2
    /\ ccCalls[1].by = "timer" /\ ccCalls[2].by = "close"
    /\ ccChild = "closed" /\ ccKills = 1
    /\ ccPromise = <<(<<"error", <<"C","l","a","u","d","e"," ","C","L","I"," ","t","i","m","e","d"," ","o","u","t"," ","a","f","t","e","r"," ","3","0"," ","s","e","c","o","n","d","s">>>>)>>  \* 'Claude CLI timed out after 30 seconds'

====

